---------------------------- MODULE Spec2Model ----------------------------
(***************************************************************************)
(* Model of AnnotationFrame.js (PixInsight script "Image Annotation        *)
(* Frame" v0.31): the global configuration state, the geometry and font    *)
(* derivation, the FITS-header persistence of the root inputs, the dialog  *)
(* event handlers and the main loop.                                       *)
(*                                                                         *)
(* JavaScript numbers are modelled as exact rationals [n, d] in lowest     *)
(* terms with d > 0; the record with d = 0 stands for NaN.  IEEE rounding  *)
(* of the last binary digit is not modelled: the value sets below are      *)
(* chosen so that on every computation the model can reach the truncated   *)
(* bar heights of the exact and of the double-precision evaluation agree.  *)
(* JavaScript strings are sequences of one-character strings.              *)
(***************************************************************************)
EXTENDS Integers, Sequences, FiniteSets, TLC

(***************************************************************************)
(* Numbers                                                                 *)
(***************************************************************************)
Abs(x) == IF x < 0 THEN -x ELSE x

RECURSIVE GCD(_, _)
GCD(a, b) == IF b = 0 THEN a ELSE GCD(b, a % b)

NaN == [n |-> 0, d |-> 0]

IsNaN(a) == a.d = 0

\* the rational n/d in lowest terms (NaN when d = 0)
Rat(n, d) ==
    IF d = 0 THEN NaN
    ELSE LET g == GCD(Abs(n), Abs(d))
             s == IF d < 0 THEN -1 ELSE 1
         IN  [n |-> s * (n \div g), d |-> s * (d \div g)]

Num(k) == [n |-> k, d |-> 1]

RAdd(a, b) == IF IsNaN(a) \/ IsNaN(b) THEN NaN
              ELSE Rat(a.n * b.d + b.n * a.d, a.d * b.d)

RSub(a, b) == IF IsNaN(a) \/ IsNaN(b) THEN NaN
              ELSE Rat(a.n * b.d - b.n * a.d, a.d * b.d)

RMul(a, b) == IF IsNaN(a) \/ IsNaN(b) THEN NaN
              ELSE Rat(a.n * b.n, a.d * b.d)

\* a / b; a division by zero is not a finite number
RDiv(a, b) == IF IsNaN(a) \/ IsNaN(b) THEN NaN
              ELSE Rat(a.n * b.d, a.d * b.n)

\* a < b, a <= b: every comparison with NaN is false
RLt(a, b) == ~IsNaN(a) /\ ~IsNaN(b) /\ a.n * b.d < b.n * a.d

RLe(a, b) == ~IsNaN(a) /\ ~IsNaN(b) /\ a.n * b.d <= b.n * a.d

\* Math.floor in the place of Math.trunc
MathFloor(a) == IF IsNaN(a) THEN NaN ELSE Num(a.n \div a.d)

\* Math.ceil in the place of Math.trunc
MathCeil(a) ==
    IF IsNaN(a) THEN NaN
    ELSE IF a.n % a.d = 0 THEN Num(a.n \div a.d)
    ELSE Num((a.n \div a.d) + 1)

\* Math.trunc(a): the integer part of a, rounding toward zero
MathTrunc(a) ==
    IF IsNaN(a) THEN NaN
    ELSE IF a.n >= 0 THEN Num(a.n \div a.d)
    ELSE Num(-((-a.n) \div a.d))

\* Math.round(a): the nearest integer, a half rounding toward +Infinity
MathRound(a) ==
    IF IsNaN(a) THEN NaN ELSE Num((2 * a.n + a.d) \div (2 * a.d))

\* the whole pixels of a non-negative pixel count
Pixels(a) == IF IsNaN(a) \/ a.n < 0 THEN 0 ELSE a.n \div a.d

MaxOf(S) == CHOOSE m \in S : \A k \in S : k <= m

MinOf(S) == CHOOSE m \in S : \A k \in S : m <= k

Half == Rat(1, 2)

Hundred == Num(100)

(***************************************************************************)
(* Strings and the number <-> string conversions                           *)
(***************************************************************************)
DigitChars == <<"0", "1", "2", "3", "4", "5", "6", "7", "8", "9">>

IsDigit(c) == \E k \in 1..10 : DigitChars[k] = c

DigitVal(c) == (CHOOSE k \in 1..10 : DigitChars[k] = c) - 1

RECURSIVE Pow10(_)
Pow10(k) == IF k = 0 THEN 1 ELSE 10 * Pow10(k - 1)

\* decimal digits of a natural number
RECURSIVE IntToString(_)
IntToString(k) ==
    IF k < 10 THEN <<DigitChars[k + 1]>>
    ELSE IntToString(k \div 10) \o <<DigitChars[(k % 10) + 1]>>

\* decimal digits of the fraction rem/den (0 <= rem < den), at most fuel digits
RECURSIVE FractionToString(_, _, _)
FractionToString(rem, den, fuel) ==
    IF rem = 0 \/ fuel = 0 THEN <<>>
    ELSE <<DigitChars[((rem * 10) \div den) + 1]>>
         \o FractionToString((rem * 10) % den, den, fuel - 1)

\* String(x) for a number x, as kvp.assign stores it in a keyword value
NumberToString(a) ==
    IF IsNaN(a) THEN <<"N", "a", "N">>
    ELSE LET m    == Abs(a.n)
             frac == FractionToString(m % a.d, a.d, 17)
         IN  (IF a.n < 0 THEN <<"-">> ELSE <<>>)
             \o IntToString(m \div a.d)
             \o (IF frac = <<>> THEN <<>> ELSE <<".">> \o frac)

\* the run of digits of s starting at position i
RECURSIVE ScanDigits(_, _, _, _)
ScanDigits(s, i, acc, cnt) ==
    IF i <= Len(s) /\ IsDigit(s[i])
    THEN ScanDigits(s, i + 1, acc * 10 + DigitVal(s[i]), cnt + 1)
    ELSE [val |-> acc, pos |-> i, cnt |-> cnt]

\* parseFloat(s): the longest decimal prefix [-]digits[.digits] of s
parseFloat(s) ==
    LET neg    == Len(s) >= 1 /\ s[1] = "-"
        start  == IF neg THEN 2 ELSE 1
        ip     == ScanDigits(s, start, 0, 0)
        hasDot == ip.pos <= Len(s) /\ s[ip.pos] = "."
        fp     == IF hasDot THEN ScanDigits(s, ip.pos + 1, 0, 0)
                  ELSE [val |-> 0, pos |-> ip.pos, cnt |-> 0]
        mag    == RAdd(Num(ip.val), Rat(fp.val, Pow10(fp.cnt)))
    IN  IF ip.cnt = 0 /\ fp.cnt = 0 THEN NaN
        ELSE IF neg THEN RSub(Num(0), mag) ELSE mag

Quote == "'"

\* "'" + s + "'"
Quoted(s) == <<Quote>> \o s \o <<Quote>>

\* FITSKeyword.isString: the value is a quoted string literal
isString(value) == Len(value) >= 1 /\ value[1] = Quote

\* value.slice(1, -1)
Slice1(value) == IF Len(value) >= 2 THEN SubSeq(value, 2, Len(value) - 1) ELSE <<>>

\* a JavaScript string used as a condition: true unless empty
Truthy(s) == Len(s) > 0

(***************************************************************************)
(* Bounds and the values the dialog's controls deliver                     *)
(***************************************************************************)
\* number of times the script is run on the same images
MaxRuns == 2

\* the views of the view list besides "<No View Selected>" ("null")
Images == {"img1"}

ImageWidth == [i \in Images |-> 1000]

ImageHeight == [i \in Images |-> 800]

\* keywords the image windows carry before the script first runs
InitialKeywords ==
    [i \in Images |->
        << [name |-> "OBJECT", value |-> Quoted(<<"M", "3", "1">>),
            comment |-> "target"] >>]

\* verBorderWidthFactor: range 10..30, precision 1
FrameHeightValues == {Rat(25, 2), Num(25)}

\* verImagePlacement: range 0..100, precision 1
VerPlacementValues == {Num(0), Num(50)}

\* horBorderWidthFactor: range 2..10, precision 0
FrameWidthValues == {Num(3), Num(10)}

(***************************************************************************)
(* State                                                                   *)
(***************************************************************************)
VARIABLES
    nullViewThrows,            \* whether the runtime raises an error on reading a null view
    pc,                        \* main: "dialog" (dialog.execute() is showing), "done"
    run,                       \* which run of the script this is
    frameWidthIncPerc,
    frameHeightIncPerc,
    verticalImageOffset,
    verticalImageFactor,
    annotationFrameParameters,
    allDimensions,
    titleFont,
    bottomFont,
    renderWindow,
    header,
    keywords,                  \* window.keywords of every image
    controlsEnabled,           \* enabled flag of the controls set by onViewSelected
    frames,                    \* the addFrame calls made on the target image
    stored,                    \* the geometry and fonts in effect at the last
                               \* writeValuesToFITSHeader, and the image written to
    renderInk,                 \* the pixels of temp_render with sample > 0
    annotations,               \* the process instances the last handler executed
    returned,                  \* the value the last function applied on its own returned
    foregroundColor,           \* foregroundColor of the title and caption edit boxes
    textBoxesEnabled,          \* enabled flag of the caption edit boxes of each column
    scratchWindows,
    \* the number of open image windows created as temp_render
    console                    \* the messages main and the last handler wrote to the console

vars == << nullViewThrows, pc, run, frameWidthIncPerc, frameHeightIncPerc,
           verticalImageOffset, verticalImageFactor, annotationFrameParameters,
           allDimensions, titleFont, bottomFont, renderWindow, header, keywords,
           controlsEnabled, frames, stored, renderInk, annotations, returned,
           foregroundColor, textBoxesEnabled, scratchWindows, console >>

\* the state of text measurement, painting and fit highlighting
textVars == << renderInk, annotations, returned, foregroundColor, textBoxesEnabled >>

\* the messages written to the console
StartMessage == "Start Annotation Frame Script"

CanceledMessage == "Script execution canceled by user request."

SpecifyMessage == "Please specify image window."

StoredMessage == "Values are stored in FITS header of file."

HistoryMessage == "If you want to optimize the settings of the script, ..."

Helvetica == <<"H", "e", "l", "v", "e", "t", "i", "c", "a">>

ImageTitle == <<"I", "m", "a", "g", "e", " ", "T", "i", "t", "l", "e">>

InitAnnotationFrameParameters ==
    [ imageView |-> "undefined",
      titleText |-> ImageTitle,
      bottomLeftText1 |-> <<>>, bottomLeftText2 |-> <<>>, bottomLeftText3 |-> <<>>,
      bottomCenterText1 |-> <<>>, bottomCenterText2 |-> <<>>, bottomCenterText3 |-> <<>>,
      bottomRightText1 |-> <<>>, bottomRightText2 |-> <<>>, bottomRightText3 |-> <<>>,
      nrOfColumns |-> 3,
      leftColumn |-> TRUE, centerColumn |-> TRUE, rightColumn |-> TRUE ]

\* the edit boxes of the dialog, named by the parameter they edit
TextFields ==
    { "titleText",
      "bottomLeftText1", "bottomLeftText2", "bottomLeftText3",
      "bottomCenterText1", "bottomCenterText2", "bottomCenterText3",
      "bottomRightText1", "bottomRightText2", "bottomRightText3" }

Columns == {"left", "center", "right"}

InitAllDimensions ==
    [ imageWidth |-> Num(0), imageHeight |-> Num(0),
      innerFrameThickness |-> Num(10),
      framedImageWidth |-> Num(0), framedImageHeight |-> Num(0),
      outerFrameWidth |-> Num(0), outerFrameHeight |-> Num(0),
      titleBarHeight |-> Num(0), bottomBarHeight |-> Num(0) ]

InitTitleFont ==
    [ fontName |-> Helvetica, fontSizeFactor |-> Rat(3, 10), fontSize |-> Num(0) ]

InitBottomFont ==
    [ fontName |-> Helvetica, fontSizeFactor |-> Rat(36, 100), fontSize |-> Num(0) ]

\* no ink, nothing executed, default text colours, caption boxes disabled
InitText ==
    /\ renderInk = {}
    /\ annotations = <<>>
    /\ returned = "none"
    /\ foregroundColor = [f \in TextFields |-> "default"]
    /\ textBoxesEnabled = [c \in Columns |-> FALSE]

\* the globals as the script's top level leaves them
InitGlobals ==
    /\ frameWidthIncPerc = Num(3)
    /\ frameHeightIncPerc = Num(25)
    /\ verticalImageOffset = Num(50)
    /\ verticalImageFactor = Half
    /\ annotationFrameParameters = InitAnnotationFrameParameters
    /\ allDimensions = InitAllDimensions
    /\ titleFont = InitTitleFont
    /\ bottomFont = InitBottomFont
    /\ renderWindow = [defined |-> FALSE, isNull |-> TRUE,
                       width |-> Num(0), height |-> Num(0)]
    /\ header = <<>>
    /\ controlsEnabled = FALSE
    /\ frames = <<>>
    /\ InitText

Init ==
    /\ nullViewThrows \in BOOLEAN
    /\ pc = "dialog"
    /\ run = 1
    /\ keywords = InitialKeywords
    /\ stored = [ view |-> "undefined", allDimensions |-> InitAllDimensions,
                  titleFont |-> InitTitleFont, bottomFont |-> InitBottomFont ]
    /\ scratchWindows = 0
    /\ console = << StartMessage >>
    /\ InitGlobals

(***************************************************************************)
(* Geometry and fonts                                                      *)
(***************************************************************************)
\* 1 + perc / 100
IncFactor(perc) == RAdd(Num(1), RDiv(perc, Hundred))

\* (outerH/2 - framedH/2) - (a - b) * framedH, the value Math.trunc receives
BarExpression(outerH, framedH, a, b) ==
    RSub(RSub(RDiv(outerH, Num(2)), RDiv(framedH, Num(2))),
         RMul(RSub(a, b), framedH))

\* calculateAllDimensions with the inner frame taken off the image
calculateAllDimensionsInset(dims, width, height, widthPerc, heightPerc, factor) ==
    LET framedW == RSub(Num(width), RMul(Num(2), dims.innerFrameThickness))
        framedH == RSub(Num(height), RMul(Num(2), dims.innerFrameThickness))
        outerW  == RMul(framedW, IncFactor(widthPerc))
        outerH  == RMul(framedH, IncFactor(heightPerc))
    IN  [ dims EXCEPT
            !.imageWidth = Num(width), !.imageHeight = Num(height),
            !.framedImageWidth = framedW, !.framedImageHeight = framedH,
            !.outerFrameWidth = outerW, !.outerFrameHeight = outerH,
            !.titleBarHeight = MathTrunc(BarExpression(outerH, framedH, factor, Half)),
            !.bottomBarHeight = MathTrunc(BarExpression(outerH, framedH, Half, factor)) ]

\* calculateAllDimensions(imageView) for an image of width x height pixels,
\* reading the globals frameWidthIncPerc, frameHeightIncPerc, verticalImageFactor
calculateAllDimensions(dims, width, height, widthPerc, heightPerc, factor) ==
    LET framedW == RAdd(Num(width), RMul(Num(2), dims.innerFrameThickness))
        framedH == RAdd(Num(height), RMul(Num(2), dims.innerFrameThickness))
        outerW  == RMul(framedW, IncFactor(widthPerc))
        outerH  == RMul(framedH, IncFactor(heightPerc))
    IN  [ dims EXCEPT
            !.imageWidth = Num(width), !.imageHeight = Num(height),
            !.framedImageWidth = framedW, !.framedImageHeight = framedH,
            !.outerFrameWidth = outerW, !.outerFrameHeight = outerH,
            !.titleBarHeight = MathTrunc(BarExpression(outerH, framedH, factor, Half)),
            !.bottomBarHeight = MathTrunc(BarExpression(outerH, framedH, Half, factor)) ]

\* calculateFonts with the bottom bar split in two lines
calculateFontsTwoLines(dims, tFont, bFont) ==
    [ title  |-> [tFont EXCEPT !.fontSize = RMul(dims.titleBarHeight, tFont.fontSizeFactor)],
      bottom |-> [bFont EXCEPT !.fontSize =
                    RMul(RDiv(dims.bottomBarHeight, Num(2)), bFont.fontSizeFactor)] ]

\* calculateFonts(): the two font records with their sizes recomputed
calculateFonts(dims, tFont, bFont) ==
    [ title  |-> [tFont EXCEPT !.fontSize = RMul(dims.titleBarHeight, tFont.fontSizeFactor)],
      bottom |-> [bFont EXCEPT !.fontSize =
                    RMul(RDiv(dims.bottomBarHeight, Num(3)), bFont.fontSizeFactor)] ]

\* calculateDisplacement with the whole maxMoveFactor subtracted from 0.5
calculateDisplacementFullMove(dims, percentage) ==
    LET maxMovePixels == RSub(dims.outerFrameHeight, dims.framedImageHeight)
        maxMoveFactor == RDiv(maxMovePixels, dims.outerFrameHeight)
    IN  RAdd(RSub(Half, maxMoveFactor),
             RMul(maxMoveFactor, RDiv(percentage, Hundred)))

\* calculateDisplacement(percentage)
calculateDisplacement(dims, percentage) ==
    LET maxMovePixels == RSub(dims.outerFrameHeight, dims.framedImageHeight)
        maxMoveFactor == RDiv(maxMovePixels, dims.outerFrameHeight)
    IN  RAdd(RSub(Half, RDiv(maxMoveFactor, Num(2))),
             RMul(maxMoveFactor, RDiv(percentage, Hundred)))

(***************************************************************************)
(* The scratch window "temp_render"                                        *)
(***************************************************************************)
\* createTextRenderWindow()
createTextRenderWindow(dims) ==
    [ defined |-> TRUE, isNull |-> FALSE,
      width  |-> RAdd(dims.framedImageWidth, Hundred),
      height |-> IF RLt(RDiv(dims.bottomBarHeight, Num(3)), dims.titleBarHeight)
                 THEN dims.titleBarHeight
                 ELSE RDiv(dims.bottomBarHeight, Num(3)) ]

\* closeTextRenderWindow(renderWindow)
closeTextRenderWindow(w) ==
    IF w.defined /\ ~w.isNull THEN [w EXCEPT !.isNull = TRUE] ELSE w

(***************************************************************************)
(* Text measurement on temp_render and painting on the target image        *)
(***************************************************************************)
\* a line distance of one font height
lineDistanceOne == Num(1)

lineDistance == Rat(9, 10)

\* typeof(renderWindow) != "undefined" && !renderWindow.isNull
WindowOpen(w) == w.defined /\ ~w.isNull

\* the open temp_render windows after NewImage.executeGlobal() in
\* createTextRenderWindow, of n open before
WindowsAfterCreate(n) == n + 1

\* the open temp_render windows after closeTextRenderWindow(w), of n open
\* before: forceClose is called on a window that is defined and not null
WindowsAfterClose(w, n) == IF WindowOpen(w) THEN n - 1 ELSE n

\* P.annotationFontSize as renderTextDimensions and writeImageTitle assign it
AnnotationFontSize(fontSize) ==
    IF RLt(fontSize, Num(256)) THEN MathRound(fontSize) ELSE Num(255)

\* an Annotation instance as it is executed on a view: the target is the
\* window found for "temp_render" or the id of the target image; the instance
\* of a writeBottomText call is kept with the line, columns and block of the call
Annotation(target, by, text, fontName, fontSize, x, y, ink) ==
    [ target |-> target, by |-> by, annotationText |-> text,
      annotationFont |-> fontName, annotationFontSize |-> fontSize,
      annotationPositionX |-> x, annotationPositionY |-> y, ink |-> ink ]

\* the pixels of a w x h raster the Annotation process inks for a text drawn at
\* (0,0): every character fills a box of fontSize x fontSize pixels, the first
\* and the last inked pixel of the row of boxes stand for the row, and nothing
\* is inked outside the raster or for an empty text or a size below 1
AnnotationInk(text, fontSize, w) ==
    LET size == Pixels(fontSize)
    IN  IF Len(text) = 0 \/ size = 0 \/ Pixels(w.width) = 0 \/ Pixels(w.height) = 0
        THEN {}
        ELSE { <<0, 0>>,
               << MinOf({Len(text) * size, Pixels(w.width)}) - 1,
                  MinOf({size, Pixels(w.height)}) - 1 >> }

\* the pixels of drawn that lie on the raster of w
OnRaster(drawn, w) ==
    { p \in drawn : /\ 0 <= p[1] /\ p[1] < Pixels(w.width)
                    /\ 0 <= p[2] /\ p[2] < Pixels(w.height) }

\* the raster left as it is
PixelMathKeep(sample) == sample

\* PixelMath with expression "0" executed on temp_render
PixelMathZero(sample) == {}

\* renderTextDimensions with the smallest inked coordinates
renderTextDimensionsNearest(text, fontName, fontSize, w, ink, drawn) ==
    LET sample == ink \cup OnRaster(drawn, w)
    IN  [ textDimensions |->
             [ length |-> MinOf({0} \cup { p[1] : p \in sample }),
               height |-> MinOf({0} \cup { p[2] : p \in sample }) ],
          ink |-> PixelMathZero(sample),
          annotation |-> Annotation(w, "renderTextDimensions", text,
                            fontName, AnnotationFontSize(fontSize),
                            Num(0), Num(0), OnRaster(drawn, w)) ]

\* renderTextDimensions(text, fontName, fontSize) on the raster of w holding ink,
\* where the Annotation process inks the pixels drawn
renderTextDimensions(text, fontName, fontSize, w, ink, drawn) ==
    LET sample == ink \cup OnRaster(drawn, w)
    IN  [ textDimensions |->
             [ length |-> MaxOf({0} \cup { p[1] : p \in sample }),
               height |-> MaxOf({0} \cup { p[2] : p \in sample }) ],
          ink |-> PixelMathZero(sample),
          annotation |-> Annotation(w, "renderTextDimensions", text,
                            fontName, AnnotationFontSize(fontSize),
                            Num(0), Num(0), OnRaster(drawn, w)) ]

\* what the Annotation process inks on temp_render for a measurement
MeasuredInk(text, fontSize, w) ==
    AnnotationInk(text, AnnotationFontSize(fontSize), w)

\* a title test that lets an ink width equal to the frame width pass
titleFitsOrEqual(titleString, tFont, dims, w, ink, drawn) ==
    LET r == renderTextDimensions(titleString, tFont.fontName, tFont.fontSize,
                                  w, ink, drawn)
    IN  [ value |-> RLe(Num(r.textDimensions.length), dims.framedImageWidth),
          ink |-> r.ink, annotation |-> r.annotation ]

\* a caption test without the 2 % gutter
textFitsNoGutter(text, nrOfColumns, bFont, dims, w, ink, drawn) ==
    LET r == renderTextDimensions(text, bFont.fontName, bFont.fontSize, w, ink, drawn)
    IN  [ value |-> RLt(Num(r.textDimensions.length),
                        RDiv(dims.framedImageWidth, Num(nrOfColumns))),
          ink |-> r.ink, annotation |-> r.annotation ]

\* a caption test with a gutter of half the frame width
textFitsHalfGutter(text, nrOfColumns, bFont, dims, w, ink, drawn) ==
    LET r == renderTextDimensions(text, bFont.fontName, bFont.fontSize, w, ink, drawn)
    IN  [ value |-> RLt(Num(r.textDimensions.length),
                        RSub(RDiv(dims.framedImageWidth, Num(nrOfColumns)),
                             RMul(Half, dims.framedImageWidth))),
          ink |-> r.ink, annotation |-> r.annotation ]

\* titleFits(titleString)
titleFits(titleString, tFont, dims, w, ink, drawn) ==
    LET r == renderTextDimensions(titleString, tFont.fontName, tFont.fontSize,
                                  w, ink, drawn)
    IN  [ value |-> RLt(Num(r.textDimensions.length), dims.framedImageWidth),
          ink |-> r.ink, annotation |-> r.annotation ]

\* textFits(text, nrOfColumns); x / 0 is Infinity for x > 0; the Annotation
\* instance of the measurement is kept with the nrOfColumns of the call
textFits(text, nrOfColumns, bFont, dims, w, ink, drawn) ==
    LET r == renderTextDimensions(text, bFont.fontName, bFont.fontSize, w, ink, drawn)
        len == Num(r.textDimensions.length)
    IN  [ value |-> IF nrOfColumns = 0
                    THEN RLt(Num(0), dims.framedImageWidth)
                    ELSE RLt(len, RSub(RDiv(dims.framedImageWidth, Num(nrOfColumns)),
                                       RMul(Rat(2, 100), dims.framedImageWidth))),
          ink |-> r.ink,
          annotation |-> r.annotation @@ [ nrOfColumns |-> nrOfColumns ] ]

\* a title painter that subtracts the whole text length from the midpoint
writeImageTitleFullLength(view, imageWidth, titleString, tFont, dims, w, ink, drawn) ==
    LET r == renderTextDimensions(titleString, tFont.fontName, tFont.fontSize,
                                  w, ink, drawn)
        horizontalMidPoint == RDiv(imageWidth, Num(2))
        verticalTextPosition ==
            RDiv(RSub(dims.titleBarHeight, Num(r.textDimensions.height)), Num(2))
        horizontalTextPosition ==
            RSub(horizontalMidPoint, Num(r.textDimensions.length))
    IN  [ ink |-> r.ink,
          annotations |->
             << r.annotation,
                Annotation(view, "writeImageTitle", titleString, tFont.fontName,
                           AnnotationFontSize(tFont.fontSize),
                           horizontalTextPosition, verticalTextPosition, {}) >> ]

\* writeImageTitle(imageView, titleString) on an image of imageWidth pixels
writeImageTitle(view, imageWidth, titleString, tFont, dims, w, ink, drawn) ==
    LET r == renderTextDimensions(titleString, tFont.fontName, tFont.fontSize,
                                  w, ink, drawn)
        horizontalMidPoint == RDiv(imageWidth, Num(2))
        verticalTextPosition ==
            RDiv(RSub(dims.titleBarHeight, Num(r.textDimensions.height)), Num(2))
        horizontalTextPosition ==
            RSub(horizontalMidPoint, RDiv(Num(r.textDimensions.length), Num(2)))
    IN  [ ink |-> r.ink,
          annotations |->
             << r.annotation,
                Annotation(view, "writeImageTitle", titleString, tFont.fontName,
                           AnnotationFontSize(tFont.fontSize),
                           horizontalTextPosition, verticalTextPosition, {}) >> ]

\* a caption painter whose centre offset subtracts the whole text length
writeBottomTextCentreFull(view, imageWidth, imageHeight, line, columns, block, text, bFont, dims, w, ink, drawn) ==
    LET r == renderTextDimensions(text, bFont.fontName, bFont.fontSize, w, ink, drawn)
        textLength == Num(r.textDimensions.length)
        horizontalOffset ==
            IF block = "left" THEN Num(0)
            ELSE IF block = "center"
            THEN RSub(RMul(dims.framedImageWidth, Half), textLength)
            ELSE RSub(dims.framedImageWidth, textLength)
        verticalTextPosition ==
            RAdd(RSub(imageHeight, dims.bottomBarHeight),
                 RDiv(RMul(RMul(Num(line - 1), bFont.fontSize), lineDistance),
                      bFont.fontSizeFactor))
        horizontalTextPosition ==
            RAdd(RDiv(RSub(imageWidth, dims.framedImageWidth), Num(2)),
                 horizontalOffset)
    IN  [ ink |-> r.ink,
          annotations |->
             << r.annotation,
                Annotation(view, "writeBottomText", text, bFont.fontName,
                           bFont.fontSize,
                           horizontalTextPosition, verticalTextPosition, {})
                   @@ [ line |-> line, columns |-> columns, block |-> block ] >> ]

\* writeBottomText(imageView, line, columns, block, text) on an image of
\* imageWidth x imageHeight pixels
writeBottomText(view, imageWidth, imageHeight, line, columns, block, text, bFont, dims, w, ink, drawn) ==
    LET r == renderTextDimensions(text, bFont.fontName, bFont.fontSize, w, ink, drawn)
        textLength == Num(r.textDimensions.length)
        horizontalOffset ==
            IF block = "left" THEN Num(0)
            ELSE IF block = "center"
            THEN RSub(RMul(dims.framedImageWidth, Half), RDiv(textLength, Num(2)))
            ELSE IF block = "right" THEN RSub(dims.framedImageWidth, textLength)
            ELSE Num(0)
        verticalTextPosition ==
            RAdd(RAdd(RSub(imageHeight, dims.bottomBarHeight),
                      RMul(dims.bottomBarHeight, Num(0))),
                 RDiv(RMul(RMul(Num(line - 1), bFont.fontSize), lineDistance),
                      bFont.fontSizeFactor))
        horizontalTextPosition ==
            RAdd(RDiv(RSub(imageWidth, dims.framedImageWidth), Num(2)),
                 horizontalOffset)
    IN  [ ink |-> r.ink,
          annotations |->
             << r.annotation,
                Annotation(view, "writeBottomText", text, bFont.fontName,
                           bFont.fontSize,
                           horizontalTextPosition, verticalTextPosition, {})
                   @@ [ line |-> line, columns |-> columns, block |-> block ] >> ]

(***************************************************************************)
(* FITS header                                                             *)
(***************************************************************************)
Comment == "written by AnnotationFrame script"

HasKeyword(hdr, name) == \E i \in 1..Len(hdr) : hdr[i].name = name

FirstIndex(hdr, name) ==
    CHOOSE i \in 1..Len(hdr) :
        /\ hdr[i].name = name
        /\ \A j \in 1..(i - 1) : hdr[j].name # name

\* findKVPFromFITSHeader(name).value; found = FALSE stands for undefined
findKVPFromFITSHeader(hdr, name) ==
    IF HasKeyword(hdr, name)
    THEN LET kvp == hdr[FirstIndex(hdr, name)]
         IN  [ found |-> TRUE,
               value |-> IF isString(kvp.value) THEN Slice1(kvp.value) ELSE kvp.value ]
    ELSE [ found |-> FALSE, value |-> <<>> ]

\* FITSword = find(name).value; if (FITSword) target = FITSword
RetrievedText(hdr, name, old) ==
    LET w == findKVPFromFITSHeader(hdr, name)
    IN  IF w.found /\ Truthy(w.value) THEN w.value ELSE old

\* FITSword = find(name).value; if (FITSword) target = parseFloat(FITSword)
RetrievedNumber(hdr, name, old) ==
    LET w == findKVPFromFITSHeader(hdr, name)
    IN  IF w.found /\ Truthy(w.value) THEN parseFloat(w.value) ELSE old

\* a write that appends the keyword whether or not its name exists
writeKVPAppend(hdr, kvp) == Append(hdr, kvp)

\* writeKVPToFITSHeader(kvp)
writeKVPToFITSHeader(hdr, kvp) ==
    IF HasKeyword(hdr, kvp.name)
    THEN [hdr EXCEPT ![FirstIndex(hdr, kvp.name)].value = kvp.value]
    ELSE Append(hdr, kvp)

Keyword(name, value) == [name |-> name, value |-> value, comment |-> Comment]

\* the key-value pairs writeValuesToFITSHeader assigns, in its order
ValuesToWrite(params, offset, heightPerc, widthPerc, tFont, bFont) ==
    << Keyword("AF_imageTitle", Quoted(params.titleText)),
       Keyword("AF_bottomLeftText1", Quoted(params.bottomLeftText1)),
       Keyword("AF_bottomLeftText2", Quoted(params.bottomLeftText2)),
       Keyword("AF_bottomLeftText3", Quoted(params.bottomLeftText3)),
       Keyword("AF_bottomCenterText1", Quoted(params.bottomCenterText1)),
       Keyword("AF_bottomCenterText2", Quoted(params.bottomCenterText2)),
       Keyword("AF_bottomCenterText3", Quoted(params.bottomCenterText3)),
       Keyword("AF_bottomRightText1", Quoted(params.bottomRightText1)),
       Keyword("AF_bottomRightText2", Quoted(params.bottomRightText2)),
       Keyword("AF_bottomRightText3", Quoted(params.bottomRightText3)),
       Keyword("AF_verImagePlacement", NumberToString(offset)),
       Keyword("AF_verBorderWidth", NumberToString(heightPerc)),
       Keyword("AF_horBorderWidth", NumberToString(widthPerc)),
       Keyword("AF_titleFont", tFont.fontName),
       Keyword("AF_annotationFont", bFont.fontName) >>

RECURSIVE WriteAll(_, _)
WriteAll(hdr, kvps) ==
    IF kvps = <<>> THEN hdr
    ELSE WriteAll(writeKVPToFITSHeader(hdr, Head(kvps)), Tail(kvps))

\* writeValuesToFITSHeader(imageView): the header array after the 15 writes,
\* which the FITSHeader process then stores as the image's keywords
writeValuesToFITSHeader(hdr, params, offset, heightPerc, widthPerc, tFont, bFont) ==
    WriteAll(hdr, ValuesToWrite(params, offset, heightPerc, widthPerc, tFont, bFont))

\* retrieveValuesFromFITSHeader(): the texts of annotationFrameParameters
RetrievedParameters(hdr, params) ==
    [ params EXCEPT
        !.titleText = RetrievedText(hdr, "AF_imageTitle", @),
        !.bottomLeftText1 = RetrievedText(hdr, "AF_bottomLeftText1", @),
        !.bottomLeftText2 = RetrievedText(hdr, "AF_bottomLeftText2", @),
        !.bottomLeftText3 = RetrievedText(hdr, "AF_bottomLeftText3", @),
        !.bottomCenterText1 = RetrievedText(hdr, "AF_bottomCenterText1", @),
        !.bottomCenterText2 = RetrievedText(hdr, "AF_bottomCenterText2", @),
        !.bottomCenterText3 = RetrievedText(hdr, "AF_bottomCenterText3", @),
        !.bottomRightText1 = RetrievedText(hdr, "AF_bottomRightText1", @),
        !.bottomRightText2 = RetrievedText(hdr, "AF_bottomRightText2", @),
        !.bottomRightText3 = RetrievedText(hdr, "AF_bottomRightText3", @) ]

(***************************************************************************)
(* Dialog event handlers                                                   *)
(***************************************************************************)
\* imageView.image, imageView.window can be read
ViewReadable(view) == view \in Images \/ (view = "null" /\ ~nullViewThrows)

\* imageView.image.width, imageView.image.height (an empty image for the null view)
ViewWidth(view) == IF view \in Images THEN ImageWidth[view] ELSE 0

ViewHeight(view) == IF view \in Images THEN ImageHeight[view] ELSE 0

\* imageView.window.keywords
ViewKeywords(view) == IF view \in Images THEN keywords[view] ELSE <<>>

\* imageViewList.onViewSelected
ViewSelected(view) ==
    /\ pc = "dialog"
    /\ IF ViewReadable(view)
       THEN LET hdr     == ViewKeywords(view)
                params  == RetrievedParameters(hdr,
                              [annotationFrameParameters EXCEPT !.imageView = view])
                offset  == RetrievedNumber(hdr, "AF_verImagePlacement", verticalImageOffset)
                hPerc   == RetrievedNumber(hdr, "AF_verBorderWidth", frameHeightIncPerc)
                wPerc   == RetrievedNumber(hdr, "AF_horBorderWidth", frameWidthIncPerc)
                tFont   == [titleFont EXCEPT
                              !.fontName = RetrievedText(hdr, "AF_titleFont", @)]
                bFont   == [bottomFont EXCEPT
                              !.fontName = RetrievedText(hdr, "AF_annotationFont", @)]
                dims    == calculateAllDimensions(allDimensions, ViewWidth(view),
                              ViewHeight(view), wPerc, hPerc, verticalImageFactor)
                fonts   == calculateFonts(dims, tFont, bFont)
            IN  /\ annotationFrameParameters' = params
                /\ header' = hdr
                /\ verticalImageOffset' = offset
                /\ frameHeightIncPerc' = hPerc
                /\ frameWidthIncPerc' = wPerc
                /\ allDimensions' = dims
                /\ titleFont' = fonts.title
                /\ bottomFont' = fonts.bottom
                /\ controlsEnabled' = (view \in Images)
                /\ textBoxesEnabled' = [c \in Columns |-> view \in Images]
       ELSE \* the read of the null view's keywords raises an error: the handler ends
            /\ annotationFrameParameters' =
                  [annotationFrameParameters EXCEPT !.imageView = view]
            /\ UNCHANGED << header, verticalImageOffset, frameHeightIncPerc,
                            frameWidthIncPerc, allDimensions, titleFont, bottomFont,
                            controlsEnabled, textBoxesEnabled >>
    /\ UNCHANGED << nullViewThrows, pc, run, verticalImageFactor,
                    renderWindow, scratchWindows,
                    keywords, frames, stored, renderInk, returned,
                    foregroundColor >>
    /\ annotations' = <<>>
    /\ console' = <<>>

\* calculateAllDimensions(annotationFrameParameters.imageView); calculateFonts()
\* as the geometry handlers call them; an unreadable view ends the handler
Recalculated(hPerc, factor) ==
    LET view == annotationFrameParameters.imageView
    IN  IF ViewReadable(view)
        THEN LET dims  == calculateAllDimensions(allDimensions, ViewWidth(view),
                             ViewHeight(view), frameWidthIncPerc, hPerc, factor)
                 fonts == calculateFonts(dims, titleFont, bottomFont)
             IN  /\ allDimensions' = dims
                 /\ titleFont' = fonts.title
                 /\ bottomFont' = fonts.bottom
        ELSE UNCHANGED << allDimensions, titleFont, bottomFont >>

\* verBorderWidthFactor.onValueUpdated
VerBorderWidthUpdated(value) ==
    /\ pc = "dialog"
    /\ controlsEnabled
    /\ frameHeightIncPerc' = value
    /\ Recalculated(value, verticalImageFactor)
    /\ UNCHANGED << nullViewThrows, pc, run, frameWidthIncPerc, verticalImageOffset,
                    verticalImageFactor, annotationFrameParameters, renderWindow, scratchWindows,
                    
                    header, keywords, controlsEnabled, frames, stored, renderInk, returned,
                    foregroundColor, textBoxesEnabled >>
    /\ annotations' = <<>>
    /\ console' = <<>>

\* verImagePlacement.onValueUpdated
VerImagePlacementUpdated(value) ==
    /\ pc = "dialog"
    /\ controlsEnabled
    /\ verticalImageOffset' = value
    /\ verticalImageFactor' = calculateDisplacement(allDimensions, value)
    /\ Recalculated(frameHeightIncPerc, calculateDisplacement(allDimensions, value))
    /\ UNCHANGED << nullViewThrows, pc, run, frameWidthIncPerc, frameHeightIncPerc,
                    annotationFrameParameters, renderWindow, scratchWindows,
                    header, keywords,
                    controlsEnabled, frames, stored, renderInk, returned,
                    foregroundColor, textBoxesEnabled >>
    /\ annotations' = <<>>
    /\ console' = <<>>

\* horBorderWidthFactor.onValueUpdated
HorBorderWidthUpdated(value) ==
    /\ pc = "dialog"
    /\ controlsEnabled
    /\ frameWidthIncPerc' = value
    /\ UNCHANGED << nullViewThrows, pc, run, frameHeightIncPerc, verticalImageOffset,
                    verticalImageFactor, annotationFrameParameters, allDimensions,
                    titleFont, bottomFont, renderWindow, scratchWindows,
                    header, keywords,
                    controlsEnabled, frames, stored, renderInk, returned,
                    foregroundColor, textBoxesEnabled >>
    /\ annotations' = <<>>
    /\ console' = <<>>

\* the caption edit boxes of a column, line 1 to 3
ColumnFields(column) ==
    IF column = "left"
    THEN << "bottomLeftText1", "bottomLeftText2", "bottomLeftText3" >>
    ELSE IF column = "center"
    THEN << "bottomCenterText1", "bottomCenterText2", "bottomCenterText3" >>
    ELSE << "bottomRightText1", "bottomRightText2", "bottomRightText3" >>

\* annotationFrameParameters.leftColumn, .centerColumn, .rightColumn
ColumnFlag(params, column) ==
    IF column = "left" THEN params.leftColumn
    ELSE IF column = "center" THEN params.centerColumn
    ELSE params.rightColumn

\* a count that leaves the centre column out
CountColumnsLeftRight(params) ==
    (IF params.leftColumn THEN 1 ELSE 0) + (IF params.rightColumn THEN 1 ELSE 0)

\* "count nr of columns" at the end of the checkbox handlers
CountColumns(params) ==
    (IF params.leftColumn THEN 1 ELSE 0) + (IF params.centerColumn THEN 1 ELSE 0)
        + (IF params.rightColumn THEN 1 ELSE 0)

\* leftColumnCheckbox.onClick, centerColumnCheckbox.onClick,
\* rightColumnCheckbox.onClick: the click has toggled the checkbox
ColumnCheckboxClicked(column) ==
    /\ pc = "dialog"
    /\ controlsEnabled
    /\ LET checked == ~ColumnFlag(annotationFrameParameters, column)
           flagged == IF column = "left"
                      THEN [annotationFrameParameters EXCEPT !.leftColumn = checked]
                      ELSE IF column = "center"
                      THEN [annotationFrameParameters EXCEPT !.centerColumn = checked]
                      ELSE [annotationFrameParameters EXCEPT !.rightColumn = checked]
       IN  /\ annotationFrameParameters' =
                 [flagged EXCEPT !.nrOfColumns = CountColumns(flagged)]
           /\ textBoxesEnabled' = [textBoxesEnabled EXCEPT ![column] = checked]
    /\ UNCHANGED << nullViewThrows, pc, run, frameWidthIncPerc, frameHeightIncPerc,
                    verticalImageOffset, verticalImageFactor, allDimensions,
                    titleFont, bottomFont, renderWindow, scratchWindows,
                    header, keywords,
                    controlsEnabled, frames, stored, renderInk, returned,
                    foregroundColor >>
    /\ annotations' = <<>>
    /\ console' = <<>>

\* whether the edit box of a field accepts input
FieldEnabled(field) ==
    IF field = "titleText" THEN controlsEnabled
    ELSE \E column \in Columns :
            /\ \E i \in 1..3 : ColumnFields(column)[i] = field
            /\ textBoxesEnabled[column]

\* imageTitle.onTextUpdated, bottomLeftText1.onTextUpdated, ...
TextUpdated(field, text) ==
    /\ pc = "dialog"
    /\ FieldEnabled(field)
    /\ annotationFrameParameters' = [annotationFrameParameters EXCEPT ![field] = text]
    /\ UNCHANGED << nullViewThrows, pc, run, frameWidthIncPerc, frameHeightIncPerc,
                    verticalImageOffset, verticalImageFactor, allDimensions,
                    titleFont, bottomFont, renderWindow, scratchWindows,
                    header, keywords,
                    controlsEnabled, frames, stored, renderInk, returned,
                    foregroundColor, textBoxesEnabled >>
    /\ annotations' = <<>>
    /\ console' = <<>>

\* the caption boxes of every column, whatever its checkbox
FieldsOfColumnsAll(params, columns) ==
    ColumnFields("left") \o ColumnFields("center") \o ColumnFields("right")

\* the edit boxes Check Length tests, in the order it tests them
RECURSIVE FieldsOfColumns(_, _)
FieldsOfColumns(params, columns) ==
    IF columns = <<>> THEN <<>>
    ELSE (IF ColumnFlag(params, Head(columns))
          THEN ColumnFields(Head(columns)) ELSE <<>>)
         \o FieldsOfColumns(params, Tail(columns))

CheckedFields(params) ==
    << "titleText" >> \o FieldsOfColumns(params, << "left", "center", "right" >>)

\* titleFits / textFits on each field in turn: the results in that order
RECURSIVE CheckLengths(_, _, _)
CheckLengths(fields, w, ink) ==
    IF fields = <<>> THEN <<>>
    ELSE LET field == Head(fields)
             text  == annotationFrameParameters[field]
             r == IF field = "titleText"
                  THEN titleFits(text, titleFont, allDimensions, w, ink,
                                 MeasuredInk(text, titleFont.fontSize, w))
                  ELSE textFits(text, annotationFrameParameters.nrOfColumns,
                                bottomFont, allDimensions, w, ink,
                                MeasuredInk(text, bottomFont.fontSize, w))
         IN  << [ field |-> field, value |-> r.value, ink |-> r.ink,
                  annotation |-> r.annotation ] >>
             \o CheckLengths(Tail(fields), w, r.ink)

\* a Check Length that also sets nrOfColumns back to 3
LengthCheckRecounting ==
    /\ pc = "dialog"
    /\ controlsEnabled
    /\ renderWindow' = createTextRenderWindow(allDimensions)
    /\ scratchWindows' =
          WindowsAfterCreate(WindowsAfterClose(renderWindow, scratchWindows))
    /\ annotationFrameParameters' = [annotationFrameParameters EXCEPT !.nrOfColumns = 3]
    /\ annotations' = <<>>
    /\ console' = <<>>
    /\ UNCHANGED << nullViewThrows, pc, run, frameWidthIncPerc, frameHeightIncPerc,
                    verticalImageOffset, verticalImageFactor, allDimensions,
                    titleFont, bottomFont, header, keywords, controlsEnabled,
                    frames, stored, renderInk, returned, foregroundColor,
                    textBoxesEnabled >>

\* a Check Length that creates temp_render without closing the one it holds
LengthCheckNotClosing ==
    /\ pc = "dialog"
    /\ controlsEnabled
    /\ renderWindow' = createTextRenderWindow(allDimensions)
    /\ scratchWindows' = WindowsAfterCreate(scratchWindows)
    /\ annotations' = <<>>
    /\ console' = <<>>
    /\ UNCHANGED << nullViewThrows, pc, run, frameWidthIncPerc, frameHeightIncPerc,
                    verticalImageOffset, verticalImageFactor,
                    annotationFrameParameters, allDimensions, titleFont, bottomFont,
                    header, keywords, controlsEnabled, frames, stored, renderInk,
                    returned, foregroundColor, textBoxesEnabled >>

\* lengthCheckButton.onClick; a measurement without temp_render raises an error
\* and the handler ends
LengthCheckClicked ==
    /\ pc = "dialog"
    /\ controlsEnabled
    /\ LET view    == annotationFrameParameters.imageView
           closed  == closeTextRenderWindow(renderWindow)
           remaining == WindowsAfterClose(renderWindow, scratchWindows)
           created == IF view \in Images
                      THEN createTextRenderWindow(allDimensions) ELSE closed
       IN  /\ renderWindow' = created
           /\ scratchWindows' = IF view \in Images
                                THEN WindowsAfterCreate(remaining) ELSE remaining
           /\ IF WindowOpen(created)
              THEN LET r == CheckLengths(CheckedFields(annotationFrameParameters),
                                         created, {})
                   IN  /\ renderInk' = r[Len(r)].ink
                       /\ foregroundColor' =
                             [ f \in TextFields |->
                                 IF \E i \in 1..Len(r) : r[i].field = f
                                 THEN LET i == CHOOSE i \in 1..Len(r) : r[i].field = f
                                      IN  IF r[i].value THEN "black" ELSE "red"
                                 ELSE foregroundColor[f] ]
                       /\ annotations' = [ i \in 1..Len(r) |-> r[i].annotation ]
              ELSE /\ renderInk' = {}
                   /\ annotations' =
                         << Annotation(created, "renderTextDimensions",
                               annotationFrameParameters.titleText, titleFont.fontName,
                               AnnotationFontSize(titleFont.fontSize),
                               Num(0), Num(0), {}) >>
                   /\ UNCHANGED foregroundColor
    /\ console' = <<>>
    /\ UNCHANGED << nullViewThrows, pc, run, frameWidthIncPerc, frameHeightIncPerc,
                    verticalImageOffset, verticalImageFactor,
                    annotationFrameParameters, allDimensions, titleFont, bottomFont,
                    header, keywords, controlsEnabled, frames, stored, returned,
                    textBoxesEnabled >>

(***************************************************************************)
(* Execute, Cancel and the main loop                                       *)
(***************************************************************************)
\* addFrame(imageView, centerX, centerY, width, height, color)
addFrame(centerX, centerY, width, height, color) ==
    [ centerX |-> centerX, centerY |-> centerY,
      width |-> width, height |-> height, color |-> color ]

\* addFrameStyle with the outer frame added first
addFrameStyleOuterFirst(dims, factor) ==
    << addFrame(Half, factor, dims.outerFrameWidth, dims.outerFrameHeight, "black"),
       addFrame(Half, Half, dims.framedImageWidth, dims.framedImageHeight, "white") >>

\* addFrameStyle(imageView, "default")
addFrameStyle(dims, factor) ==
    << addFrame(Half, Half, dims.framedImageWidth, dims.framedImageHeight, "white"),
       addFrame(Half, factor, dims.outerFrameWidth, dims.outerFrameHeight, "black") >>

\* a FITSHeader or DynamicCrop instance as main's functions execute it on the
\* target image, kept with the function that executed it
ProcessInstance(by, view, parameters) == [ by |-> by, target |-> view ] @@ parameters

\* the DynamicCrop instances of addFrameStyle in the order they are executed
FrameInstances(view, added) ==
    [ i \in 1..Len(added) |-> ProcessInstance("addFrame", view, added[i]) ]

\* image.width / image.height after DynamicCrop to a size of a pixels
DynamicCropSize(a) == MathRound(a)

\* the captions main writes, in the order it writes them
RECURSIVE CaptionsOfColumns(_, _)
CaptionsOfColumns(params, columns) ==
    IF columns = <<>> THEN <<>>
    ELSE (IF ColumnFlag(params, Head(columns))
          THEN [ line \in 1..3 |->
                   [ line |-> line, block |-> Head(columns),
                     field |-> ColumnFields(Head(columns))[line] ] ]
          ELSE <<>>)
         \o CaptionsOfColumns(params, Tail(columns))

\* main's writeBottomText calls in turn on the framed image: the ink left on
\* temp_render and the Annotation instances executed
RECURSIVE WriteBottomTexts(_, _, _, _, _, _)
WriteBottomTexts(captions, view, imageWidth, imageHeight, w, ink) ==
    IF captions = <<>>
    THEN [ ink |-> ink, annotations |-> <<>> ]
    ELSE LET c    == Head(captions)
             text == annotationFrameParameters[c.field]
             r == writeBottomText(view, imageWidth, imageHeight, c.line,
                                  annotationFrameParameters.nrOfColumns, c.block,
                                  text, bottomFont, allDimensions, w, ink,
                                  MeasuredInk(text, bottomFont.fontSize, w))
             rest == WriteBottomTexts(Tail(captions), view, imageWidth,
                                      imageHeight, w, r.ink)
         IN  [ ink |-> rest.ink, annotations |-> r.annotations \o rest.annotations ]

\* execButton.onClick, then main's loop body after dialog.execute() returns
ExecuteClicked ==
    /\ pc = "dialog"
    /\ LET view    == annotationFrameParameters.imageView
           closed  == closeTextRenderWindow(renderWindow)
           remaining == WindowsAfterClose(renderWindow, scratchWindows)
           created == IF view \in Images
                      THEN createTextRenderWindow(allDimensions) ELSE closed
       IN  IF view \in Images
           THEN LET hdr == writeValuesToFITSHeader(header, annotationFrameParameters,
                              verticalImageOffset, frameHeightIncPerc,
                              frameWidthIncPerc, titleFont, bottomFont)
                IN  /\ header' = hdr
                    /\ keywords' = [keywords EXCEPT ![view] = hdr]
                    /\ stored' = [ view |-> view, allDimensions |-> allDimensions,
                                   titleFont |-> titleFont, bottomFont |-> bottomFont ]
                    /\ frames' = addFrameStyle(allDimensions, verticalImageFactor)
                    /\ LET imageWidth  == DynamicCropSize(allDimensions.outerFrameWidth)
                           imageHeight == DynamicCropSize(allDimensions.outerFrameHeight)
                           text  == annotationFrameParameters.titleText
                           title == writeImageTitle(view, imageWidth, text, titleFont,
                                       allDimensions, created, {},
                                       MeasuredInk(text, titleFont.fontSize, created))
                           texts == WriteBottomTexts(
                                       CaptionsOfColumns(annotationFrameParameters,
                                                         << "left", "center", "right" >>),
                                       view, imageWidth, imageHeight, created,
                                       title.ink)
                       IN  /\ annotations' =
                                 << ProcessInstance("writeValuesToFITSHeader", view,
                                                    [keywords |-> hdr]) >>
                                 \o FrameInstances(view,
                                       addFrameStyle(allDimensions, verticalImageFactor))
                                 \o title.annotations \o texts.annotations
                           /\ renderInk' = texts.ink
                    /\ renderWindow' = closeTextRenderWindow(created)
                    /\ scratchWindows' =
                          WindowsAfterClose(created, WindowsAfterCreate(remaining))
                    /\ console' = << StoredMessage, HistoryMessage >>
                    /\ pc' = "done"
           ELSE \* "Please specify image window.": the dialog is shown again
                /\ renderWindow' = created
                /\ scratchWindows' = remaining
                /\ console' = << SpecifyMessage >>
                /\ annotations' = <<>>
                /\ UNCHANGED << header, keywords, frames, stored, pc, renderInk >>
    /\ UNCHANGED << nullViewThrows, run, frameWidthIncPerc, frameHeightIncPerc,
                    verticalImageOffset, verticalImageFactor,
                    annotationFrameParameters, allDimensions, titleFont, bottomFont,
                    controlsEnabled, returned, foregroundColor, textBoxesEnabled >>

\* a Cancel after which main returns without closing temp_render
CancelNotClosing ==
    /\ pc = "dialog"
    /\ pc' = "done"
    /\ console' = << CanceledMessage >>
    /\ annotations' = <<>>
    /\ UNCHANGED << nullViewThrows, run, frameWidthIncPerc, frameHeightIncPerc,
                    verticalImageOffset, verticalImageFactor,
                    annotationFrameParameters, allDimensions, titleFont, bottomFont,
                    renderWindow, scratchWindows, header, keywords, controlsEnabled,
                    frames, stored, renderInk, returned, foregroundColor,
                    textBoxesEnabled >>

\* cancelButton.onClick or the dialog's close button: dialog.execute() returns 0
CancelClicked ==
    /\ pc = "dialog"
    /\ renderWindow' = closeTextRenderWindow(renderWindow)
    /\ scratchWindows' = WindowsAfterClose(renderWindow, scratchWindows)
    /\ console' = << CanceledMessage >>
    /\ pc' = "done"
    /\ UNCHANGED << nullViewThrows, run, frameWidthIncPerc, frameHeightIncPerc,
                    verticalImageOffset, verticalImageFactor,
                    annotationFrameParameters, allDimensions, titleFont, bottomFont,
                    header, keywords, controlsEnabled, frames, stored, renderInk, returned,
                    foregroundColor, textBoxesEnabled >>
    /\ annotations' = <<>>

\* the script is loaded again on the images as the FITSHeader step left them
ScriptReloaded ==
    /\ pc = "done"
    /\ run < MaxRuns
    /\ run' = run + 1
    /\ pc' = "dialog"
    /\ frameWidthIncPerc' = Num(3)
    /\ frameHeightIncPerc' = Num(25)
    /\ verticalImageOffset' = Num(50)
    /\ verticalImageFactor' = Half
    /\ annotationFrameParameters' = InitAnnotationFrameParameters
    /\ allDimensions' = InitAllDimensions
    /\ titleFont' = InitTitleFont
    /\ bottomFont' = InitBottomFont
    /\ renderWindow' = [defined |-> FALSE, isNull |-> TRUE,
                        width |-> Num(0), height |-> Num(0)]
    /\ header' = <<>>
    /\ controlsEnabled' = FALSE
    /\ frames' = <<>>
    /\ renderInk' = {}
    /\ annotations' = <<>>
    /\ foregroundColor' = [f \in TextFields |-> "default"]
    /\ textBoxesEnabled' = [c \in Columns |-> FALSE]
    /\ console' = << StartMessage >>
    /\ UNCHANGED << nullViewThrows, keywords, stored, returned, scratchWindows >>

Next ==
    \/ \E view \in Images \cup {"null"} : ViewSelected(view)
    \/ \E value \in FrameHeightValues : VerBorderWidthUpdated(value)
    \/ \E value \in VerPlacementValues : VerImagePlacementUpdated(value)
    \/ \E value \in FrameWidthValues : HorBorderWidthUpdated(value)
    \/ ExecuteClicked
    \/ CancelClicked
    \/ ScriptReloaded

Spec == Init /\ [][Next]_vars

(***************************************************************************)
(* One showing of the dialog: target selection, the geometry controls,     *)
(* Check Length, Execute and Cancel, which create, use and close           *)
(* temp_render                                                             *)
(***************************************************************************)
NextDialog ==
    \/ \E view \in Images \cup {"null"} : ViewSelected(view)
    \/ \E value \in FrameHeightValues : VerBorderWidthUpdated(value)
    \/ \E value \in VerPlacementValues : VerImagePlacementUpdated(value)
    \/ \E value \in FrameWidthValues : HorBorderWidthUpdated(value)
    \/ LengthCheckClicked
    \/ ExecuteClicked
    \/ CancelClicked

SpecDialog == Init /\ [][NextDialog]_vars

(***************************************************************************)
(* One showing of the dialog on a selected image: the column checkboxes,   *)
(* a caption edit box, Check Length and Execute.  No null view is         *)
(* selected, so the outcome of reading one plays no part.                  *)
(***************************************************************************)
LongCaption == [i \in 1..30 |-> "M"]

EditTexts == { <<>>, LongCaption }

EditedFields == { "bottomLeftText1", "bottomCenterText1" }

InitColumns == Init /\ ~nullViewThrows

NextColumns ==
    \/ \E view \in Images : ViewSelected(view)
    \/ \E column \in Columns : ColumnCheckboxClicked(column)
    \/ \E field \in EditedFields, text \in EditTexts : TextUpdated(field, text)
    \/ LengthCheckClicked
    \/ ExecuteClicked

SpecColumns == InitColumns /\ [][NextColumns]_vars

(***************************************************************************)
(* The geometry pipeline on its own: calculateAllDimensions,               *)
(* calculateDisplacement and calculateFonts applied to drawn inputs, in    *)
(* the order onViewSelected and verImagePlacement.onValueUpdated call them *)
(***************************************************************************)
GeomImages == {"g1024x768", "g40x15", "g1x1"}

GeomWidth == [g \in GeomImages |->
                 IF g = "g1024x768" THEN 1024 ELSE IF g = "g40x15" THEN 40 ELSE 1]

GeomHeight == [g \in GeomImages |->
                  IF g = "g1024x768" THEN 768 ELSE IF g = "g40x15" THEN 15 ELSE 1]

GeomThickness == {Num(0), Num(1), Num(10)}

GeomWidthPercents == {Num(0), Num(3), Num(10)}

GeomHeightPercents == {Num(0), Rat(25, 2), Num(25)}

GeomPlacements == {Num(0), Num(50), Num(100)}

InitGeom ==
    /\ nullViewThrows = FALSE
    /\ pc = "geom0"
    /\ run = 1
    /\ keywords = InitialKeywords
    /\ stored = [ view |-> "undefined", allDimensions |-> InitAllDimensions,
                  titleFont |-> InitTitleFont, bottomFont |-> InitBottomFont ]
    /\ frameWidthIncPerc \in GeomWidthPercents
    /\ frameHeightIncPerc \in GeomHeightPercents
    /\ verticalImageOffset \in GeomPlacements
    /\ verticalImageFactor = Half
    /\ annotationFrameParameters \in
          { [InitAnnotationFrameParameters EXCEPT !.imageView = g] : g \in GeomImages }
    /\ allDimensions \in
          { [InitAllDimensions EXCEPT !.innerFrameThickness = t] : t \in GeomThickness }
    /\ titleFont = InitTitleFont
    /\ bottomFont = InitBottomFont
    /\ renderWindow = [defined |-> FALSE, isNull |-> TRUE,
                       width |-> Num(0), height |-> Num(0)]
    /\ header = <<>>
    /\ controlsEnabled = FALSE
    /\ frames = <<>>
    /\ scratchWindows = 0
    /\ console = <<>>
    /\ InitText

\* calculateAllDimensions(view); calculateFonts() with the globals as they are
GeomCalculated ==
    LET g     == annotationFrameParameters.imageView
        dims  == calculateAllDimensions(allDimensions, GeomWidth[g], GeomHeight[g],
                    frameWidthIncPerc, frameHeightIncPerc, verticalImageFactor)
        fonts == calculateFonts(dims, titleFont, bottomFont)
    IN  /\ allDimensions' = dims
        /\ titleFont' = fonts.title
        /\ bottomFont' = fonts.bottom

GeomDimensions ==
    /\ pc = "geom0"
    /\ pc' = "geom1"
    /\ GeomCalculated
    /\ UNCHANGED << nullViewThrows, run, frameWidthIncPerc, frameHeightIncPerc,
                    verticalImageOffset, verticalImageFactor,
                    annotationFrameParameters, renderWindow, scratchWindows,
                    console, header, keywords,
                    controlsEnabled, frames, stored, textVars >>

GeomDisplacement ==
    /\ pc = "geom1"
    /\ pc' = "geom2"
    /\ verticalImageFactor' = calculateDisplacement(allDimensions, verticalImageOffset)
    /\ UNCHANGED << nullViewThrows, run, frameWidthIncPerc, frameHeightIncPerc,
                    verticalImageOffset, annotationFrameParameters, allDimensions,
                    titleFont, bottomFont, renderWindow, scratchWindows,
                    console, header, keywords,
                    controlsEnabled, frames, stored, textVars >>

GeomRecalculation ==
    /\ pc = "geom2"
    /\ pc' = "geom3"
    /\ GeomCalculated
    /\ UNCHANGED << nullViewThrows, run, frameWidthIncPerc, frameHeightIncPerc,
                    verticalImageOffset, verticalImageFactor,
                    annotationFrameParameters, renderWindow, scratchWindows,
                    console, header, keywords,
                    controlsEnabled, frames, stored, textVars >>

NextGeom == GeomDimensions \/ GeomDisplacement \/ GeomRecalculation

SpecGeom == InitGeom /\ [][NextGeom]_vars

(***************************************************************************)
(* Measurement, fit tests and painting on their own: renderTextDimensions, *)
(* titleFits, textFits, writeImageTitle and writeBottomText applied to     *)
(* drawn rasters, font sizes, frame widths and inked pixels                *)
(***************************************************************************)
\* a 3 x 2 raster and the raster of the 1000 x 800 image
TextWindows ==
    { [defined |-> TRUE, isNull |-> FALSE, width |-> Num(3), height |-> Num(2)],
      [defined |-> TRUE, isNull |-> FALSE, width |-> Num(1120), height |-> Num(102)] }

TextFrameWidths == {Num(2), Num(21), Num(1020)}

\* 12.24, 30.6, 255.6 and 300
TextFontSizes == {Rat(1224, 100), Rat(306, 10), Rat(2556, 10), Num(300)}

TextColumns == {1, 2, 3}

\* every set of pixels of the 3 x 2 raster, and single pixels further out
TextInks ==
    (SUBSET ((0..2) \X (0..1)))
    \cup { {<<319, 1>>}, {<<320, 1>>}, {<<500, 0>>}, {<<1019, 0>>}, {<<1020, 1>>},
           {<<1119, 101>>}, {<<1120, 0>>}, {<<0, 102>>} }

InitTextCalls ==
    /\ nullViewThrows = FALSE
    /\ pc = "text0"
    /\ run = 1
    /\ keywords = InitialKeywords
    /\ stored = [ view |-> "undefined", allDimensions |-> InitAllDimensions,
                  titleFont |-> InitTitleFont, bottomFont |-> InitBottomFont ]
    /\ frameWidthIncPerc = Num(3)
    /\ frameHeightIncPerc = Num(25)
    /\ verticalImageOffset = Num(50)
    /\ verticalImageFactor = Half
    /\ annotationFrameParameters \in
          { [InitAnnotationFrameParameters EXCEPT !.imageView = "img1",
                                                  !.nrOfColumns = n] :
              n \in TextColumns }
    /\ allDimensions \in
          { [calculateAllDimensions(InitAllDimensions, 1000, 800, Num(3), Num(25), Half)
                EXCEPT !.framedImageWidth = f] : f \in TextFrameWidths }
    /\ \E size \in TextFontSizes :
          /\ titleFont = [InitTitleFont EXCEPT !.fontSize = size]
          /\ bottomFont = [InitBottomFont EXCEPT !.fontSize = size]
    /\ renderWindow \in TextWindows
    /\ header = <<>>
    /\ controlsEnabled = TRUE
    /\ frames = <<>>
    /\ scratchWindows = 1
    /\ console = <<>>
    /\ InitText

TextCallFrame ==
    UNCHANGED << nullViewThrows, run, frameWidthIncPerc, frameHeightIncPerc,
                 verticalImageOffset, verticalImageFactor, annotationFrameParameters,
                 allDimensions, titleFont, bottomFont, renderWindow, scratchWindows,
                 console, header, keywords,
                 controlsEnabled, frames, stored, foregroundColor, textBoxesEnabled >>

\* renderTextDimensions applied once, and once more on the same raster
MeasureCalled(drawn) ==
    /\ pc \in {"text0", "measured"}
    /\ pc' = IF pc = "text0" THEN "measured" ELSE "measuredAgain"
    /\ LET r == renderTextDimensions(annotationFrameParameters.titleText,
                   titleFont.fontName, titleFont.fontSize, renderWindow, renderInk, drawn)
       IN  /\ renderInk' = r.ink
           /\ returned' = r.textDimensions
           /\ annotations' = << r.annotation >>
    /\ TextCallFrame

TitleFitsCalled(drawn) ==
    /\ pc = "text0"
    /\ pc' = "titleFits"
    /\ LET r == titleFits(annotationFrameParameters.titleText, titleFont, allDimensions,
                          renderWindow, renderInk, drawn)
       IN  /\ renderInk' = r.ink
           /\ returned' = r.value
           /\ annotations' = << r.annotation >>
    /\ TextCallFrame

TextFitsCalled(drawn) ==
    /\ pc = "text0"
    /\ pc' = "textFits"
    /\ LET r == textFits(annotationFrameParameters.titleText,
                         annotationFrameParameters.nrOfColumns, bottomFont,
                         allDimensions, renderWindow, renderInk, drawn)
       IN  /\ renderInk' = r.ink
           /\ returned' = r.value
           /\ annotations' = << r.annotation >>
    /\ TextCallFrame

ImageTitleWritten(drawn) ==
    /\ pc = "text0"
    /\ pc' = "writeImageTitle"
    /\ LET r == writeImageTitle(annotationFrameParameters.imageView,
                   allDimensions.imageWidth, annotationFrameParameters.titleText,
                   titleFont, allDimensions, renderWindow, renderInk, drawn)
       IN  /\ renderInk' = r.ink
           /\ annotations' = r.annotations
    /\ UNCHANGED returned
    /\ TextCallFrame

BottomTextWritten(drawn, line, block) ==
    /\ pc = "text0"
    /\ pc' = "writeBottomText"
    /\ LET r == writeBottomText(annotationFrameParameters.imageView,
                   allDimensions.imageWidth, allDimensions.imageHeight, line,
                   annotationFrameParameters.nrOfColumns, block,
                   annotationFrameParameters.titleText, bottomFont, allDimensions,
                   renderWindow, renderInk, drawn)
       IN  /\ renderInk' = r.ink
           /\ annotations' = r.annotations
    /\ UNCHANGED returned
    /\ TextCallFrame

NextTextCalls ==
    \/ \E drawn \in TextInks : MeasureCalled(drawn)
    \/ \E drawn \in TextInks : TitleFitsCalled(drawn)
    \/ \E drawn \in TextInks : TextFitsCalled(drawn)
    \/ \E drawn \in TextInks : ImageTitleWritten(drawn)
    \/ \E drawn \in TextInks, line \in 1..3, block \in Columns :
          BottomTextWritten(drawn, line, block)

SpecTextCalls == InitTextCalls /\ [][NextTextCalls]_vars

(***************************************************************************)
(* The FITS header functions on their own: retrieveValuesFromFITSHeader    *)
(* and writeValuesToFITSHeader applied to drawn headers and parameters     *)
(***************************************************************************)
\* the values a keyword of the drawn headers holds, "absent" for no keyword
HeaderTexts == { "absent", Quoted(<<>>), Quoted(<<"B">>) }

HeaderNumbers == { "absent", <<"0">>, <<"2", "5">> }

HeaderFonts == { "absent", <<"A", "r", "i", "a", "l">> }

\* a header holding the keywords of names that are not absent, in this order
RECURSIVE HeaderOf(_, _)
HeaderOf(names, values) ==
    IF names = <<>> THEN <<>>
    ELSE (IF Head(values) = "absent" THEN <<>>
          ELSE << [name |-> Head(names), value |-> Head(values), comment |-> Comment] >>)
         \o HeaderOf(Tail(names), Tail(values))

\* headers with and without foreign keywords around the AF_ keywords
HeaderInputs ==
    { pre \o HeaderOf(<< "AF_imageTitle", "AF_bottomLeftText1",
                         "AF_verImagePlacement", "AF_titleFont" >>,
                      << t, c, n, f >>) \o post :
        t \in HeaderTexts, c \in HeaderTexts, n \in HeaderNumbers, f \in HeaderFonts,
        pre \in { <<>>, InitialKeywords["img1"] },
        post \in { <<>>, << [name |-> "HISTORY", value |-> <<"x">>, comment |-> ""] >> } }

\* the title and first caption the dialog holds when the header is read or written
ParameterTexts == { <<>>, <<"A">> }

InitHeader ==
    /\ nullViewThrows = FALSE
    /\ pc = "header0"
    /\ run = 1
    /\ keywords = InitialKeywords
    /\ stored = [ view |-> "undefined", allDimensions |-> InitAllDimensions,
                  titleFont |-> InitTitleFont, bottomFont |-> InitBottomFont ]
    /\ frameWidthIncPerc = Num(3)
    /\ frameHeightIncPerc = Num(25)
    /\ verticalImageOffset \in { Num(0), Num(50) }
    /\ verticalImageFactor = Half
    /\ annotationFrameParameters \in
          { [InitAnnotationFrameParameters EXCEPT !.imageView = "img1",
                                                  !.titleText = t,
                                                  !.bottomLeftText1 = c] :
              t \in ParameterTexts \cup {ImageTitle}, c \in ParameterTexts }
    /\ allDimensions = InitAllDimensions
    /\ titleFont = InitTitleFont
    /\ bottomFont = InitBottomFont
    /\ renderWindow = [defined |-> FALSE, isNull |-> TRUE,
                       width |-> Num(0), height |-> Num(0)]
    /\ header \in HeaderInputs
    /\ controlsEnabled = TRUE
    /\ frames = <<>>
    /\ scratchWindows = 0
    /\ console = <<>>
    /\ InitText

HeaderFrame ==
    UNCHANGED << nullViewThrows, run, verticalImageFactor, allDimensions,
                 renderWindow, scratchWindows,
                 console, keywords, controlsEnabled, frames, stored, textVars >>

\* retrieveValuesFromFITSHeader()
HeaderRetrieved ==
    /\ pc = "header0"
    /\ pc' = "retrieved"
    /\ annotationFrameParameters' = RetrievedParameters(header, annotationFrameParameters)
    /\ verticalImageOffset' =
          RetrievedNumber(header, "AF_verImagePlacement", verticalImageOffset)
    /\ frameHeightIncPerc' = RetrievedNumber(header, "AF_verBorderWidth", frameHeightIncPerc)
    /\ frameWidthIncPerc' = RetrievedNumber(header, "AF_horBorderWidth", frameWidthIncPerc)
    /\ titleFont' = [titleFont EXCEPT !.fontName = RetrievedText(header, "AF_titleFont", @)]
    /\ bottomFont' =
          [bottomFont EXCEPT !.fontName = RetrievedText(header, "AF_annotationFont", @)]
    /\ UNCHANGED header
    /\ HeaderFrame

\* writeValuesToFITSHeader(imageView), a first and a second time
HeaderWritten ==
    /\ pc \in {"header0", "retrieved", "written"}
    /\ pc' = IF pc = "written" THEN "writtenAgain" ELSE "written"
    /\ header' = writeValuesToFITSHeader(header, annotationFrameParameters,
                    verticalImageOffset, frameHeightIncPerc, frameWidthIncPerc,
                    titleFont, bottomFont)
    /\ UNCHANGED << annotationFrameParameters, verticalImageOffset, frameHeightIncPerc,
                    frameWidthIncPerc, titleFont, bottomFont >>
    /\ HeaderFrame

\* the dialog's title and placement controls between two writes
HeaderParametersChanged(text, offset) ==
    /\ pc = "written"
    /\ annotationFrameParameters' = [annotationFrameParameters EXCEPT !.titleText = text]
    /\ verticalImageOffset' = offset
    /\ UNCHANGED << pc, header, frameHeightIncPerc, frameWidthIncPerc, titleFont,
                    bottomFont >>
    /\ HeaderFrame

NextHeader ==
    \/ HeaderRetrieved
    \/ HeaderWritten
    \/ \E text \in ParameterTexts, offset \in VerPlacementValues :
          HeaderParametersChanged(text, offset)

SpecHeader == InitHeader /\ [][NextHeader]_vars

(***************************************************************************)
(* Properties                                                              *)
(***************************************************************************)
\* the integer nearest to a between a and zero
TowardZero(a) ==
    IF IsNaN(a) THEN NaN
    ELSE IF a.n >= 0 THEN Num(a.n \div a.d) ELSE Num(-((-a.n) \div a.d))

\* the largest integer not above a
Floor(a) == IF IsNaN(a) THEN NaN ELSE Num(a.n \div a.d)

IsInteger(a) == ~IsNaN(a) /\ a.d = 1

\* v = 0.5 - m/2 + m * (p/100) with m = (outerH - framedH) / outerH
DisplacementOf(outerH, framedH, p) ==
    LET m == RDiv(RSub(outerH, framedH), outerH)
    IN  RAdd(RSub(Half, RDiv(m, Num(2))), RMul(m, RDiv(p, Hundred)))

\* (outerH/2 - framedH/2) - (v - 0.5) * framedH
TitleExpression(outerH, framedH, v) ==
    RSub(RDiv(RSub(outerH, framedH), Num(2)), RMul(RSub(v, Half), framedH))

\* (outerH/2 - framedH/2) - (0.5 - v) * framedH
BottomExpression(outerH, framedH, v) ==
    RSub(RDiv(RSub(outerH, framedH), Num(2)), RMul(RSub(Half, v), framedH))

BarsSum(dims) == RAdd(dims.titleBarHeight, dims.bottomBarHeight)

ExtraHeight(dims) == RSub(dims.outerFrameHeight, dims.framedImageHeight)

ValidTarget == annotationFrameParameters.imageView \in Images

\* C1: with a valid target image selected, after any sequence of dialog events
\* verticalImageFactor equals 0.5 - m/2 + m*(verticalImageOffset/100) for
\* m = (outerFrameHeight - framedImageHeight)/outerFrameHeight of the current
\* allDimensions: the factor is never left over from an earlier geometry.
C1_FactorFollowsGeometry ==
    (pc = "dialog" /\ ValidTarget) =>
        verticalImageFactor =
            DisplacementOf(allDimensions.outerFrameHeight,
                           allDimensions.framedImageHeight, verticalImageOffset)

\* the fields of allDimensions derived from image, thickness and the root inputs
DerivedFromRoots(dims, width, height, wPerc, hPerc, offset) ==
    LET framedW == RAdd(Num(width), RMul(Num(2), dims.innerFrameThickness))
        framedH == RAdd(Num(height), RMul(Num(2), dims.innerFrameThickness))
        outerW  == RMul(framedW, RAdd(Num(1), RDiv(wPerc, Hundred)))
        outerH  == RMul(framedH, RAdd(Num(1), RDiv(hPerc, Hundred)))
        v       == DisplacementOf(outerH, framedH, offset)
    IN  /\ dims.framedImageWidth = framedW
        /\ dims.framedImageHeight = framedH
        /\ dims.outerFrameWidth = outerW
        /\ dims.outerFrameHeight = outerH
        /\ dims.titleBarHeight = TowardZero(TitleExpression(outerH, framedH, v))
        /\ dims.bottomBarHeight = TowardZero(BottomExpression(outerH, framedH, v))

\* C2: with a valid target image, after every dialog event every derived field
\* of allDimensions equals its derivation from the current root inputs
\* (image size, frameWidthIncPerc, frameHeightIncPerc, verticalImageOffset),
\* and the outer frame Execute adds has width
\* framedImageWidth * (1 + frameWidthIncPerc/100) for the current percentage.
C2_DerivedFieldsCurrent ==
    ValidTarget =>
        /\ DerivedFromRoots(allDimensions,
               ImageWidth[annotationFrameParameters.imageView],
               ImageHeight[annotationFrameParameters.imageView],
               frameWidthIncPerc, frameHeightIncPerc, verticalImageOffset)
        /\ (pc = "done" /\ frames # <<>>) =>
               frames[2].width =
                   RMul(allDimensions.framedImageWidth,
                        RAdd(Num(1), RDiv(frameWidthIncPerc, Hundred)))

GeomInput == annotationFrameParameters.imageView

\* C3: for positive image sizes, innerFrameThickness >= 0 and border percentages
\* >= 0, calculateAllDimensions yields framedImage = image + 2*innerFrameThickness
\* on each axis and outerFrame >= framedImage >= image on each axis.
C3_FrameOrdering ==
    pc \in {"geom1", "geom3"} =>
        /\ allDimensions.framedImageWidth =
               RAdd(Num(GeomWidth[GeomInput]), RMul(Num(2), allDimensions.innerFrameThickness))
        /\ allDimensions.framedImageHeight =
               RAdd(Num(GeomHeight[GeomInput]), RMul(Num(2), allDimensions.innerFrameThickness))
        /\ RLe(Num(GeomWidth[GeomInput]), allDimensions.framedImageWidth)
        /\ RLe(allDimensions.framedImageWidth, allDimensions.outerFrameWidth)
        /\ RLe(Num(GeomHeight[GeomInput]), allDimensions.framedImageHeight)
        /\ RLe(allDimensions.framedImageHeight, allDimensions.outerFrameHeight)

\* a positive thickness with a zero width percentage: framed > image, outer = framed
C3_Witness ==
    /\ pc = "geom1"
    /\ allDimensions.innerFrameThickness = Num(10)
    /\ frameWidthIncPerc = Num(0)
    /\ frameHeightIncPerc = Num(25)
    /\ allDimensions.outerFrameWidth = allDimensions.framedImageWidth
    /\ RLt(allDimensions.framedImageHeight, allDimensions.outerFrameHeight)

\* C4: for a placement percentage in [0,100] converted by calculateDisplacement on
\* the current geometry, titleBarHeight + bottomBarHeight + framedImageHeight
\* never exceeds outerFrameHeight and falls short of it by at most 2 pixels.
C4_BarsFillFrame ==
    pc = "geom3" =>
        /\ RLe(BarsSum(allDimensions), ExtraHeight(allDimensions))
        /\ RLe(RSub(ExtraHeight(allDimensions), BarsSum(allDimensions)), Num(2))

\* an off-centre placement where truncation loses more than one pixel
C4_Witness ==
    /\ pc = "geom3"
    /\ verticalImageOffset = Num(100)
    /\ RLt(Num(1), RSub(ExtraHeight(allDimensions), BarsSum(allDimensions)))

\* C5: in every reachable state titleBarHeight + bottomBarHeight <=
\* outerFrameHeight - framedImageHeight.
C5_BarsWithinFrame ==
    RLe(BarsSum(allDimensions), ExtraHeight(allDimensions))

ExampleInputs ==
    /\ allDimensions.imageWidth = Num(1000)
    /\ allDimensions.imageHeight = Num(800)
    /\ allDimensions.innerFrameThickness = Num(10)
    /\ frameWidthIncPerc = Num(3)
    /\ frameHeightIncPerc = Num(25)
    /\ verticalImageOffset = Num(50)
    /\ verticalImageFactor = Half

ExampleOutputs ==
    /\ allDimensions.framedImageWidth = Num(1020)
    /\ allDimensions.framedImageHeight = Num(820)
    /\ allDimensions.outerFrameHeight = Num(1025)
    /\ allDimensions.titleBarHeight = Num(102)
    /\ allDimensions.bottomBarHeight = Num(102)

C7_FiftyIsCentred ==
    verticalImageOffset = Num(50) =>
        /\ pc \in {"geom2", "geom3"} => verticalImageFactor = Half
        /\ pc = "geom3" =>
              /\ RLe(RSub(allDimensions.titleBarHeight, allDimensions.bottomBarHeight), Num(1))
              /\ RLe(RSub(allDimensions.bottomBarHeight, allDimensions.titleBarHeight), Num(1))

\* placement 50 on a frame with extra height: two equal bars of at least one pixel
C7_Witness ==
    /\ pc = "geom3"
    /\ verticalImageOffset = Num(50)
    /\ frameHeightIncPerc = Num(25)
    /\ verticalImageFactor = Half
    /\ allDimensions.titleBarHeight = allDimensions.bottomBarHeight
    /\ RLt(Num(0), allDimensions.titleBarHeight)

\* n - 1 <= bar <= n, a bar equal to n up to truncation
UpToTruncation(bar, n) == RLe(RSub(n, Num(1)), bar) /\ RLe(bar, n)

\* C8: placement 0 puts the framed image at the very bottom of the outer frame
\* (bottomBarHeight = 0, titleBarHeight = outerFrameHeight - framedImageHeight up
\* to truncation) and placement 100 at the very top (titleBarHeight = 0,
\* bottomBarHeight = outerFrameHeight - framedImageHeight up to truncation).
C8_ExtremesReachEdges ==
    pc = "geom3" =>
        /\ verticalImageOffset = Num(0) =>
              /\ allDimensions.bottomBarHeight = Num(0)
              /\ UpToTruncation(allDimensions.titleBarHeight, ExtraHeight(allDimensions))
        /\ verticalImageOffset = Num(100) =>
              /\ allDimensions.titleBarHeight = Num(0)
              /\ UpToTruncation(allDimensions.bottomBarHeight, ExtraHeight(allDimensions))

\* C9: selecting the image whose keywords hold the root inputs stored by
\* writeValuesToFITSHeader reproduces, when the selection handler finishes, the
\* allDimensions and the font sizes that were in effect when they were stored.
C9_ReloadReproducesGeometry ==
    [][ (\E view \in Images : ViewSelected(view) /\ stored.view = view) =>
          /\ allDimensions' = stored.allDimensions
          /\ titleFont'.fontSize = stored.titleFont.fontSize
          /\ bottomFont'.fontSize = stored.bottomFont.fontSize ]_vars

\* C10: in every state titleFont.fontSize = titleBarHeight * fontSizeFactor and
\* bottomFont.fontSize = (bottomBarHeight / 3) * fontSizeFactor for the current
\* bar heights, and the factors stay 0.3 and 0.36.
C10_FontsFollowBars ==
    /\ titleFont.fontSizeFactor = Rat(3, 10)
    /\ bottomFont.fontSizeFactor = Rat(36, 100)
    /\ titleFont.fontSize = RMul(allDimensions.titleBarHeight, Rat(3, 10))
    /\ bottomFont.fontSize =
          RMul(RDiv(allDimensions.bottomBarHeight, Num(3)), Rat(36, 100))

\* unequal bars after a placement change, with both font sizes following them
C10_Witness ==
    /\ pc = "dialog"
    /\ ValidTarget
    /\ verticalImageOffset = Num(0)
    /\ allDimensions.titleBarHeight = Num(184)
    /\ allDimensions.bottomBarHeight = Num(20)
    /\ titleFont.fontSize = Rat(552, 10)
    /\ bottomFont.fontSize = Rat(24, 10)

\* the integer nearest to a, a half counting upward
NearestInteger(a) == Floor(RAdd(a, Half))

\* the rounded size, 255 when the rounded size is above 255
SaturatedSize(size) ==
    IF RLt(Num(255), NearestInteger(size)) THEN Num(255) ELSE NearestInteger(size)

\* C11: every Annotation instance executed for a measurement, for the title or for
\* a caption carries a font size that is an integer, is at most 255 and equals
\* the rounded computed size saturated at 255, for every computed size,
\* including sizes in [255.5, 256) and above.
C11_RasterizerSizeSaturated ==
    \A i \in DOMAIN annotations :
        /\ IsInteger(annotations[i].annotationFontSize)
        /\ RLe(annotations[i].annotationFontSize, Num(255))
        /\ annotations[i].annotationFontSize \in
              { SaturatedSize(titleFont.fontSize), SaturatedSize(bottomFont.fontSize) }

\* the largest x and the largest y of a set of inked pixels, 0 and 0 for no ink
InkBounds(ink) ==
    [ length |-> IF ink = {} THEN 0
                 ELSE CHOOSE x \in { p[1] : p \in ink } : \A q \in ink : q[1] <= x,
      height |-> IF ink = {} THEN 0
                 ELSE CHOOSE y \in { p[2] : p \in ink } : \A q \in ink : q[2] <= y ]

\* the ink of the measurement the last call made
MeasuredPixels == annotations[1].ink

\* C12: renderTextDimensions returns length = the largest x and height = the
\* largest y of any pixel with sample > 0, {0, 0} when no pixel holds ink, and
\* never more than raster width - 1 and raster height - 1.
C12_InkBoundsReturned ==
    pc \in {"measured", "measuredAgain"} =>
        /\ \A p \in MeasuredPixels : p[1] <= returned.length /\ p[2] <= returned.height
        /\ MeasuredPixels # {} =>
              /\ \E p \in MeasuredPixels : p[1] = returned.length
              /\ \E p \in MeasuredPixels : p[2] = returned.height
        /\ MeasuredPixels = {} => returned = [length |-> 0, height |-> 0]
        /\ returned.length <= Pixels(renderWindow.width) - 1
        /\ returned.height <= Pixels(renderWindow.height) - 1

\* ink whose largest x and largest y lie on different pixels
C12_Witness ==
    /\ pc = "measured"
    /\ MeasuredPixels = { <<0, 1>>, <<1, 0>>, <<2, 0>> }
    /\ returned = [length |-> 2, height |-> 1]

\* C13: after every return of renderTextDimensions the scratch raster is blank,
\* and the result of a measurement that follows another one on the same raster
\* is that of its own ink alone.
C13_ScratchBlankAfterMeasure ==
    /\ pc # "text0" => renderInk = {}
    /\ pc = "measuredAgain" => returned = InkBounds(MeasuredPixels)

\* a second measurement that returns the bounds of a single pixel at the origin
C13_Witness ==
    /\ pc = "measuredAgain"
    /\ MeasuredPixels = { <<0, 0>> }
    /\ returned = [length |-> 0, height |-> 0]
    /\ renderInk = {}

\* the larger of two numbers
Larger(a, b) == IF RLt(a, b) THEN b ELSE a

\* the measurements among the Annotation instances of the last handler
Measurements == { i \in DOMAIN annotations : annotations[i].by = "renderTextDimensions" }

C15_SelectionReleasesRaster ==
    [][ ( /\ WindowOpen(renderWindow)
          /\ \E view \in Images :
                /\ view # annotationFrameParameters.imageView
                /\ ViewSelected(view) )
        => ~WindowOpen(renderWindow') ]_vars

\* the columns whose flag is set
EnabledColumns == { c \in Columns : ColumnFlag(annotationFrameParameters, c) }

\* C16: nrOfColumns is the number of column flags that are set, one of 0, 1, 2, 3.
C16_ColumnCountMatchesFlags ==
    /\ annotationFrameParameters.nrOfColumns = Cardinality(EnabledColumns)
    /\ annotationFrameParameters.nrOfColumns \in 0..3

\* all three columns have been switched off
C16_Witness ==
    /\ EnabledColumns = {}
    /\ annotationFrameParameters.nrOfColumns = 0
    /\ textBoxesEnabled = [c \in Columns |-> FALSE]

\* whether a caption fits now: textFits on a fresh raster of the current geometry
FitsNow(field) ==
    LET text == annotationFrameParameters[field]
        w    == createTextRenderWindow(allDimensions)
    IN  textFits(text, annotationFrameParameters.nrOfColumns, bottomFont,
                 allDimensions, w, {}, MeasuredInk(text, bottomFont.fontSize, w)).value

\* every status shown on a caption of an enabled column is the current one
ShownStatusCurrent ==
    \A c \in EnabledColumns : \A i \in 1..3 :
        LET field == ColumnFields(c)[i]
        IN  foregroundColor[field] # "default"
               => ((foregroundColor[field] = "black") <=> FitsNow(field))

\* C17: a click on a column checkbox, made while the statuses set by Check Length
\* are current, leaves the status shown on every caption of an enabled column
\* equal to textFits for the new nrOfColumns.
C17_StatusFollowsColumns ==
    [][ ( /\ ShownStatusCurrent
          /\ \E c \in Columns : ColumnCheckboxClicked(c) )
        => ShownStatusCurrent' ]_vars

\* the ink width the last call measured
InkWidth == InkBounds(MeasuredPixels).length

\* C18: titleFits returns true exactly when the measured ink width is strictly
\* less than framedImageWidth; an ink width equal to framedImageWidth does not fit.
C18_TitleFitsStrict ==
    pc = "titleFits" =>
        (returned <=> RLt(Num(InkWidth), allDimensions.framedImageWidth))

\* an ink width equal to the frame width
C18_Witness ==
    /\ pc = "titleFits"
    /\ InkWidth = 1020
    /\ allDimensions.framedImageWidth = Num(1020)
    /\ returned = FALSE

\* framedImageWidth / columnCount - 0.02 * framedImageWidth
Budget(width, columnCount) ==
    RSub(RDiv(width, Num(columnCount)), RDiv(RMul(Num(2), width), Hundred))

\* C19: textFits returns true exactly when the measured ink width is strictly
\* less than framedImageWidth / columnCount - 0.02 * framedImageWidth.
C19_TextFitsBudget ==
    pc = "textFits" =>
        (returned <=> RLt(Num(InkWidth),
                          Budget(allDimensions.framedImageWidth,
                                 annotationFrameParameters.nrOfColumns)))

\* ink width 500 against framedImageWidth 1020 and 3 columns: budget 319.6
C19_Witness ==
    /\ pc = "textFits"
    /\ InkWidth = 500
    /\ allDimensions.framedImageWidth = Num(1020)
    /\ annotationFrameParameters.nrOfColumns = 3
    /\ Budget(Num(1020), 3) = Rat(3196, 10)
    /\ returned = FALSE

\* frame widths from 0.01 to 4000
C20Widths == { Rat(1, 100), Num(1), Num(2), Num(21), Num(500), Num(1020), Num(4000) }

\* the test the last call made, repeated on the same ink at frame width f
FitAt(f) ==
    LET dims == [allDimensions EXCEPT !.framedImageWidth = f]
        text == annotationFrameParameters.titleText
    IN  IF pc = "titleFits"
        THEN titleFits(text, titleFont, dims, renderWindow, {}, MeasuredPixels).value
        ELSE textFits(text, annotationFrameParameters.nrOfColumns, bottomFont, dims,
                      renderWindow, {}, MeasuredPixels).value

\* once true at a width the test is true at every larger width, and it is true
\* at some width
FitMonotone ==
    /\ returned = FitAt(allDimensions.framedImageWidth)
    /\ \A f1 \in C20Widths : \A f2 \in C20Widths :
          (RLe(f1, f2) /\ FitAt(f1)) => FitAt(f2)
    /\ \E f \in C20Widths : FitAt(f)

\* C20: for a fixed measured ink width and a column count in {1, 2, 3}, titleFits
\* and textFits are monotone in framedImageWidth and true for some large enough
\* width; they are false for some small enough positive width when the ink
\* width is positive, and true at every positive width when the ink width is 0.
C20_FitMonotoneInWidth ==
    pc \in {"titleFits", "textFits"} =>
        /\ FitMonotone
        /\ InkWidth > 0 => \E f \in C20Widths : ~FitAt(f)
        /\ InkWidth = 0 => \A f \in C20Widths : FitAt(f)

\* an empty measurement fits the narrowest frame
C20_Witness ==
    /\ pc = "titleFits"
    /\ MeasuredPixels = {}
    /\ allDimensions.framedImageWidth = Num(2)
    /\ returned = TRUE
    /\ FitAt(Rat(1, 100))

\* C20 as stated: monotone, true for some large enough width and false for
\* some small enough positive width, for every ink width including 0.
C20_FalseAtSomeWidth ==
    pc \in {"titleFits", "textFits"} =>
        /\ FitMonotone
        /\ \E f \in C20Widths : ~FitAt(f)

\* the Annotation instance the last painting call executed on the target image
Painted == annotations[Len(annotations)]

\* the horizontal offset of a caption of measured width w in a block
BlockOffset(block, framedWidth, w) ==
    IF block = "left" THEN Num(0)
    ELSE IF block = "center"
    THEN RSub(RDiv(framedWidth, Num(2)), RDiv(Num(w), Num(2)))
    ELSE RSub(framedWidth, Num(w))

\* C21: writeBottomText paints a caption of measured width w at
\* x = (imageWidth - framedImageWidth) / 2 + offset, the offset being 0 for the
\* left block, framedImageWidth / 2 - w / 2 for the centre block and
\* framedImageWidth - w for the right block.
C21_CaptionX ==
    pc = "writeBottomText" =>
        Painted.annotationPositionX =
           RAdd(RDiv(RSub(allDimensions.imageWidth, allDimensions.framedImageWidth),
                     Num(2)),
                BlockOffset(Painted.block, allDimensions.framedImageWidth, InkWidth))

\* a caption 500 wide centred in a frame 1020 wide on an image 1000 wide:
\* x = -10 + 510 - 250
C21_Witness ==
    /\ pc = "writeBottomText"
    /\ InkWidth = 500
    /\ allDimensions.framedImageWidth = Num(1020)
    /\ allDimensions.imageWidth = Num(1000)
    /\ Painted.by = "writeBottomText"
    /\ Painted.block = "center"
    /\ Painted.annotationPositionX = Num(250)

\* C22: writeBottomText paints line l at y = imageHeight - bottomBarHeight
\* + bottomBarHeight * 0.0 + (l - 1) * fontSize * 0.9 / fontSizeFactor of the
\* caption font, whatever the block and the text.
C22_CaptionY ==
    pc = "writeBottomText" =>
        Painted.annotationPositionY =
           RAdd(RAdd(RSub(allDimensions.imageHeight, allDimensions.bottomBarHeight),
                     RMul(allDimensions.bottomBarHeight, Num(0))),
                RDiv(RMul(RMul(Num(Painted.line - 1), bottomFont.fontSize),
                          Rat(9, 10)),
                     bottomFont.fontSizeFactor))

\* line 3 at font size 30.6 on the 800 pixel image with a bottom bar of 102:
\* y = 800 - 102 + 2 * 30.6 * 0.9 / 0.36 = 851
C22_Witness ==
    /\ pc = "writeBottomText"
    /\ Painted.line = 3
    /\ Painted.block = "right"
    /\ bottomFont.fontSize = Rat(306, 10)
    /\ allDimensions.bottomBarHeight = Num(102)
    /\ Painted.annotationPositionY = Num(851)

\* C23: writeImageTitle paints the title at x = imageWidth / 2 - w / 2 and
\* y = (titleBarHeight - h) / 2, w and h being the ink bounds of the same string
\* measured at the title face and the size the title is painted with.
C23_TitlePosition ==
    pc = "writeImageTitle" =>
        /\ Painted.annotationPositionX =
              RSub(RDiv(allDimensions.imageWidth, Num(2)), RDiv(Num(InkWidth), Num(2)))
        /\ Painted.annotationPositionY =
              RDiv(RSub(allDimensions.titleBarHeight,
                        Num(InkBounds(MeasuredPixels).height)), Num(2))
        /\ annotations[1].by = "renderTextDimensions"
        /\ annotations[1].annotationText = Painted.annotationText
        /\ annotations[1].annotationFont = Painted.annotationFont
        /\ annotations[1].annotationFontSize = Painted.annotationFontSize

\* ink bounds 2 x 1 under a title bar of 102 on the 1000 pixel image
C23_Witness ==
    /\ pc = "writeImageTitle"
    /\ InkBounds(MeasuredPixels) = [length |-> 2, height |-> 1]
    /\ allDimensions.titleBarHeight = Num(102)
    /\ Painted.annotationPositionX = Num(499)
    /\ Painted.annotationPositionY = Rat(101, 2)

\* C24: a selection of the null view, whose image has no positive width and
\* height, leaves allDimensions and both fonts as they were.
C24_InvalidGeometryRejected ==
    [][ ViewSelected("null") =>
           /\ allDimensions' = allDimensions
           /\ titleFont' = titleFont
           /\ bottomFont' = bottomFont ]_vars

\* C25: Check Length changes nothing but temp_render and the text colours: the
\* target image (its keywords and frames), allDimensions, both fonts, the
\* percentages and the placement, the texts, the column flags and nrOfColumns
\* stay as they were.
C25_CheckLengthFrame ==
    [][ LengthCheckClicked =>
           UNCHANGED << keywords, frames, allDimensions, titleFont, bottomFont,
                        frameWidthIncPerc, frameHeightIncPerc, verticalImageOffset,
                        verticalImageFactor, annotationFrameParameters >> ]_vars

\* a Check Length with two columns left has coloured a caption and the title
C25_Witness ==
    /\ WindowOpen(renderWindow)
    /\ Measurements # {}
    /\ annotationFrameParameters.nrOfColumns = 2
    /\ annotationFrameParameters.bottomLeftText1 = LongCaption
    /\ foregroundColor["bottomLeftText1"] = "black"
    /\ foregroundColor["titleText"] = "black"

\* the writeBottomText calls among the Annotation instances of the last handler
BottomTextCalls == { i \in DOMAIN annotations : annotations[i].by = "writeBottomText" }

\* C26: every writeBottomText call of an Execute has columns 2 or 3, and a call
\* with columns = 2 has block "left" or "right".
C26_BottomTextColumns ==
    \A i \in BottomTextCalls :
        /\ annotations[i].columns \in {2, 3}
        /\ annotations[i].columns = 2 => annotations[i].block \in {"left", "right"}

\* the textFits calls among the measurements of the last handler
TextFitsCalls == { i \in Measurements : "nrOfColumns" \in DOMAIN annotations[i] }

\* C27: every textFits call of a Check Length has nrOfColumns 1, 2 or 3.
C27_TextFitsColumns ==
    \A i \in TextFitsCalls : annotations[i].nrOfColumns \in {1, 2, 3}

\* a Check Length with the centre column alone: three textFits calls with
\* nrOfColumns = 1
C27_Witness ==
    /\ pc = "dialog"
    /\ EnabledColumns = {"center"}
    /\ Cardinality(TextFitsCalls) = 3
    /\ \A i \in TextFitsCalls : annotations[i].nrOfColumns = 1

\* the position of the first keyword of a name in the header, 0 for none
KeyIndex(hdr, name) ==
    IF \E i \in 1..Len(hdr) : hdr[i].name = name
    THEN CHOOSE i \in 1..Len(hdr) :
            hdr[i].name = name /\ \A j \in 1..Len(hdr) : hdr[j].name = name => i <= j
    ELSE 0

\* the text a keyword value stores: the value without its quote marks
Unquoted(value) ==
    IF Len(value) >= 2 /\ value[1] = Quote /\ value[Len(value)] = Quote
    THEN [i \in 1..(Len(value) - 2) |-> value[i + 1]]
    ELSE value

\* the names of the text keywords and the parameters they are read into
TextKeys ==
    [ titleText |-> "AF_imageTitle",
      bottomLeftText1 |-> "AF_bottomLeftText1", bottomLeftText2 |-> "AF_bottomLeftText2",
      bottomLeftText3 |-> "AF_bottomLeftText3",
      bottomCenterText1 |-> "AF_bottomCenterText1",
      bottomCenterText2 |-> "AF_bottomCenterText2",
      bottomCenterText3 |-> "AF_bottomCenterText3",
      bottomRightText1 |-> "AF_bottomRightText1", bottomRightText2 |-> "AF_bottomRightText2",
      bottomRightText3 |-> "AF_bottomRightText3" ]

\* old is kept when the key is absent, the stored text is taken when it is present
ReadAsText(name, old, new) ==
    LET i == KeyIndex(header, name)
    IN  IF i = 0 THEN new = old ELSE new = Unquoted(header[i].value)

\* old is kept when the key is absent, the stored number is taken when it is present
ReadAsNumber(name, old, new) ==
    LET i == KeyIndex(header, name)
    IN  IF i = 0 THEN new = old ELSE new = parseFloat(Unquoted(header[i].value))

\* C28: retrieveValuesFromFITSHeader leaves the parameter of every absent AF_ key
\* as it was and sets the parameter of every present key to the stored value,
\* a stored empty text included.
C28_RetrieveByPresence ==
    [][ HeaderRetrieved =>
           /\ \A f \in TextFields :
                 ReadAsText(TextKeys[f], annotationFrameParameters[f],
                            annotationFrameParameters'[f])
           /\ ReadAsNumber("AF_verImagePlacement", verticalImageOffset,
                           verticalImageOffset')
           /\ ReadAsNumber("AF_verBorderWidth", frameHeightIncPerc, frameHeightIncPerc')
           /\ ReadAsNumber("AF_horBorderWidth", frameWidthIncPerc, frameWidthIncPerc')
           /\ ReadAsText("AF_titleFont", titleFont.fontName, titleFont'.fontName)
           /\ ReadAsText("AF_annotationFont", bottomFont.fontName, bottomFont'.fontName)
      ]_vars

\* the 15 keyword names writeValuesToFITSHeader assigns
AFKeys ==
    { TextKeys[f] : f \in TextFields }
    \cup { "AF_verImagePlacement", "AF_verBorderWidth", "AF_horBorderWidth",
           "AF_titleFont", "AF_annotationFont" }

\* no two keywords of the header share a name
NoDuplicateNames(hdr) ==
    \A i \in 1..Len(hdr) : \A j \in 1..Len(hdr) : hdr[i].name = hdr[j].name => i = j

\* the value of the first keyword of a name
ValueOf(hdr, name) == hdr[KeyIndex(hdr, name)].value

\* every AF_ key is in the header with the value the dialog holds
HoldsCurrentValues(hdr) ==
    /\ \A k \in AFKeys : KeyIndex(hdr, k) # 0
    /\ \A f \in TextFields :
          ValueOf(hdr, TextKeys[f]) = <<Quote>> \o annotationFrameParameters[f] \o <<Quote>>
    /\ parseFloat(ValueOf(hdr, "AF_verImagePlacement")) = verticalImageOffset
    /\ parseFloat(ValueOf(hdr, "AF_verBorderWidth")) = frameHeightIncPerc
    /\ parseFloat(ValueOf(hdr, "AF_horBorderWidth")) = frameWidthIncPerc
    /\ ValueOf(hdr, "AF_titleFont") = titleFont.fontName
    /\ ValueOf(hdr, "AF_annotationFont") = bottomFont.fontName

\* C29: writeValuesToFITSHeader overwrites the keywords whose names exist and
\* appends the others: the keywords already there keep their place and name,
\* those of other names keep their value, one keyword is added for every AF_ key
\* that was absent, a header without duplicate names stays without, and
\* afterwards each of the 15 AF_ keys holds the current value.
C29_WriteIsUpsert ==
    [][ HeaderWritten =>
           /\ Len(header') = Len(header)
                                + Cardinality({ k \in AFKeys : KeyIndex(header, k) = 0 })
           /\ \A i \in 1..Len(header) :
                 /\ header'[i].name = header[i].name
                 /\ header[i].name \notin AFKeys => header'[i] = header[i]
           /\ NoDuplicateNames(header) => NoDuplicateNames(header')
           /\ HoldsCurrentValues(header') ]_vars

\* a second write: the 15 AF_ keys once each, the title in its place between
\* the two foreign keywords
C29_Witness ==
    /\ pc = "writtenAgain"
    /\ Len(header) = 17
    /\ header[1].name = "OBJECT"
    /\ header[2].name = "AF_imageTitle"
    /\ header[2].value = Quoted(<<"A">>)
    /\ header[3].name = "HISTORY"
    /\ NoDuplicateNames(header)

\* the captions of the columns of a list that are enabled, column by column,
\* three lines each
RECURSIVE CaptionOrder(_)
CaptionOrder(columns) ==
    IF columns = <<>> THEN <<>>
    ELSE (IF Head(columns) \in EnabledColumns
          THEN << << Head(columns), 1 >>, << Head(columns), 2 >>, << Head(columns), 3 >> >>
          ELSE <<>>)
         \o CaptionOrder(Tail(columns))

\* C30: an Execute on a valid target image stores the parameters in the header
\* first, then adds the white inner frame, then the black outer frame, then
\* paints the title, then the captions of exactly the enabled columns, three
\* lines each; every measurement up to the last caption runs on an open
\* temp_render, which is closed afterwards.
C30_ExecuteOrder ==
    (pc = "done" /\ annotations # <<>>) =>
        LET order == CaptionOrder(<< "left", "center", "right" >>)
        IN  /\ Len(annotations) = 5 + 2 * Len(order)
            /\ annotations[1].by = "writeValuesToFITSHeader"
            /\ annotations[1].keywords = keywords[annotations[1].target]
            /\ annotations[2].by = "addFrame"
            /\ annotations[2].color = "white"
            /\ annotations[2].width = allDimensions.framedImageWidth
            /\ annotations[3].by = "addFrame"
            /\ annotations[3].color = "black"
            /\ annotations[3].width = allDimensions.outerFrameWidth
            /\ annotations[4].by = "renderTextDimensions"
            /\ annotations[5].by = "writeImageTitle"
            /\ \A k \in 1..Len(order) :
                  /\ annotations[4 + 2 * k].by = "renderTextDimensions"
                  /\ annotations[5 + 2 * k].by = "writeBottomText"
                  /\ annotations[5 + 2 * k].block = order[k][1]
                  /\ annotations[5 + 2 * k].line = order[k][2]
            /\ \A i \in Measurements : WindowOpen(annotations[i].target)
            /\ ~WindowOpen(renderWindow)

\* an Execute with the left and the right column enabled: six captions
C30_Witness ==
    /\ pc = "done"
    /\ EnabledColumns = {"left", "right"}
    /\ Len(annotations) = 17
    /\ annotations[7].block = "left"
    /\ annotations[17].block = "right"
    /\ annotations[17].line = 3

\* C31: in every state reached by dialog events with a valid target image
\* (frame height % within 10..30, placement within 0..100) titleBarHeight >= 0
\* and bottomBarHeight >= 0, also after the frame height % is changed
\* following a placement change.
C31_BarsNonNegative ==
    (ValidTarget /\ controlsEnabled) =>
    /\ RLe(Num(0), allDimensions.titleBarHeight)
    /\ RLe(Num(0), allDimensions.bottomBarHeight)

\* the measured width of the caption a writeBottomText call painted: the ink
\* bounds of the measurement executed just before the paint
PaintedWidth(i) == InkBounds(annotations[i - 1].ink).length

CaptionLeft(i) == annotations[i].annotationPositionX

CaptionRight(i) == RAdd(CaptionLeft(i), Num(PaintedWidth(i)))

\* every caption painted passes the textFits test with the current nrOfColumns
AllCaptionsFit ==
    \A i \in BottomTextCalls :
        RLt(Num(PaintedWidth(i)),
            Budget(allDimensions.framedImageWidth,
                   annotationFrameParameters.nrOfColumns))

\* the left edge of the framed image, centred on the image as it is painted
FramedLeft ==
    RDiv(RSub(NearestInteger(allDimensions.outerFrameWidth),
              allDimensions.framedImageWidth), Num(2))

CaptionsDisjoint ==
    \A i, j \in BottomTextCalls :
        (annotations[i].line = annotations[j].line
            /\ annotations[i].block # annotations[j].block) =>
        \/ RLt(CaptionRight(i), CaptionLeft(j))
        \/ RLt(CaptionRight(j), CaptionLeft(i))

CaptionsInsideFrame ==
    \A i \in BottomTextCalls :
        /\ RLe(FramedLeft, CaptionLeft(i))
        /\ RLe(CaptionRight(i), RAdd(FramedLeft, allDimensions.framedImageWidth))

\* C32: if every caption of every enabled column passes textFits with the
\* current nrOfColumns, the captions an Execute paints on one line in different
\* blocks occupy disjoint intervals [x, x + measured width], each inside the
\* horizontal extent of the framed image, for every set of enabled columns.
C32_CaptionsDisjoint ==
    (pc = "done" /\ BottomTextCalls # {} /\ AllCaptionsFit) =>
        /\ CaptionsDisjoint
        /\ CaptionsInsideFrame

\* the Annotation instances of the last handler executed on the target image
Paintings ==
    { i \in DOMAIN annotations :
        annotations[i].by \in {"writeImageTitle", "writeBottomText"} }

\* C33: every string painted on the target image (the title and each caption)
\* is painted with the font size of the measurement whose ink bounds position
\* it, the measurement executed just before the paint.
C33_PaintedAtMeasuredSize ==
    \A i \in Paintings :
        /\ annotations[i - 1].by = "renderTextDimensions"
        /\ annotations[i - 1].annotationText = annotations[i].annotationText
        /\ annotations[i].annotationFontSize = annotations[i - 1].annotationFontSize

\* bottomFont.fontSize = bottomBarHeight / 3 * fontSizeFactor
FontInvariant ==
    bottomFont.fontSize =
       RMul(RDiv(allDimensions.bottomBarHeight, Num(3)), bottomFont.fontSizeFactor)

\* the height of the target image once the frame has been added
PaintedHeight == NearestInteger(allDimensions.outerFrameHeight)

\* the top of the bottom bar: imageHeight - bottomBarHeight
BarTop == RSub(PaintedHeight, allDimensions.bottomBarHeight)

C35_OneScratchRaster ==
    /\ scratchWindows \in {0, 1}
    /\ scratchWindows = 1 <=> WindowOpen(renderWindow)

\* Check Length has measured the title on a raster made for the 12.5 % frame
\* (title bar 51) after the frame height was changed: one raster is open
C35_Witness ==
    /\ pc = "dialog"
    /\ scratchWindows = 1
    /\ foregroundColor["titleText"] = "black"
    /\ allDimensions.titleBarHeight = Num(51)
    /\ renderWindow.height = Num(51)
    /\ annotations # <<>>
    /\ annotations[1].target = renderWindow

\* C36: main's loop ends only on Cancel or on an Execute with a valid target
\* image; an Execute without a valid target image writes "Please specify image
\* window." and shows the dialog again with the image, its keywords and the
\* parameters unchanged; and whenever main returns no temp_render window is open.
C36_MainReturns ==
    [][ /\ (pc = "dialog" /\ pc' = "done") =>
              /\ \/ CancelClicked
                 \/ ExecuteClicked /\ ValidTarget
              /\ scratchWindows' = 0
              /\ ~WindowOpen(renderWindow')
        /\ (ExecuteClicked /\ ~ValidTarget) =>
              /\ pc' = "dialog"
              /\ console' = << SpecifyMessage >>
              /\ UNCHANGED << keywords, header, frames, stored,
                              annotationFrameParameters, allDimensions >>
      ]_vars

\* main has returned on Cancel after a Check Length had created temp_render:
\* the window the script holds is closed and no raster is open
C36_Witness ==
    /\ pc = "done"
    /\ console = << CanceledMessage >>
    /\ foregroundColor["titleText"] = "black"
    /\ renderWindow.defined
    /\ renderWindow.isNull
    /\ scratchWindows = 0
    /\ keywords = InitialKeywords

============================================================================
